---- MODULE Spec2Model ----
(* The spreadsheet range/style translation engine of src/google_sheets.py: *)
(* GoogleSheets._parse_range, GoogleSheets._parse_html_tags,               *)
(* GoogleSheets.update_cells, GoogleSheets.batch_update_cells,             *)
(* GoogleSheets.add_sheet, GoogleSheets.duplicate_sheet and                *)
(* GoogleSheets.rename_sheet, with the remote Sheets service as            *)
(* environment.                                                            *)
(*                                                                         *)
(* A Python str is a sequence of one-character strings, a dict is a        *)
(* function from key strings, a list is a sequence.  A call that raises    *)
(* is a record [exc |-> <exception name>]; a call that returns has         *)
(* exc = "".                                                               *)
EXTENDS Integers, Sequences, FiniteSets, TLC

VARIABLES
  call,    \* the invocation under way: operation name and arguments
  pc,      \* "called" until the operation has returned, then "returned"
  ret,     \* what the operation returned (or raised) to its caller
  sheets,  \* the remote spreadsheet: sheet title -> sheetId
  sent,    \* the remote calls issued by the invocation, in order
  formats, \* the format objects of the call, as the caller holds them
  answer,  \* what the service answered to the cell batchUpdate (in
           \* duplicate_sheet and rename_sheet: to the rename): an element
           \* of Outcomes, "none" while that call was not sent
  callers  \* the calls that are followed step by step, each with its
           \* position and its locals: two batch_update_cells calls in
           \* SpecInterleaved, one _parse_html_tags call in SpecScan; <<>>
           \* in Spec

vars == <<call, pc, ret, sheets, sent, formats, answer, callers>>

-----------------------------------------------------------------------------
(* Bounds of the model *)

\* rows 1..MaxRow are enumerated for the single-cell references
MaxRow == 12
\* the updates list handed to batch_update_cells has at most MaxUpdates entries
MaxUpdates == 2
\* the token texts handed to _parse_html_tags have at most MaxTokens pieces
MaxTokens == 3

-----------------------------------------------------------------------------
(* Python built-ins on str *)

None == [isNone |-> TRUE]

Raise(name) == [exc |-> name]
Ok(v) == [exc |-> "", val |-> v]

\* the printable ASCII characters of code points 32..95 and 97..126
AsciiLow ==
  << " ", "!", "\"", "#", "$", "%", "&", "'", "(", ")", "*", "+", ",", "-", ".", "/",
     "0", "1", "2", "3", "4", "5", "6", "7", "8", "9", ":", ";", "<", "=", ">", "?",
     "@", "A", "B", "C", "D", "E", "F", "G", "H", "I", "J", "K", "L", "M", "N", "O",
     "P", "Q", "R", "S", "T", "U", "V", "W", "X", "Y", "Z", "[", "\\", "]", "^", "_" >>

AsciiHigh ==
  << "a", "b", "c", "d", "e", "f", "g", "h", "i", "j", "k", "l", "m", "n", "o",
     "p", "q", "r", "s", "t", "u", "v", "w", "x", "y", "z", "{", "|", "}", "~" >>

Chars == {AsciiLow[i] : i \in 1..Len(AsciiLow)}
         \cup {AsciiHigh[i] : i \in 1..Len(AsciiHigh)} \cup {"\t"}

\* the code point of every character
CodePoint ==
  [c \in Chars |->
     IF c = "\t" THEN 9
     ELSE IF \E i \in 1..Len(AsciiLow) : AsciiLow[i] = c
     THEN 31 + (CHOOSE i \in 1..Len(AsciiLow) : AsciiLow[i] = c)
     ELSE 96 + (CHOOSE i \in 1..Len(AsciiHigh) : AsciiHigh[i] = c)]

\* ord(c)
Ord(c) == CodePoint[c]

\* chr(n) for a printable n
Chr(n) == IF n < 96 THEN AsciiLow[n - 31] ELSE AsciiHigh[n - 96]

UpperChar == [c \in Chars |-> IF CodePoint[c] \in 97..122 THEN Chr(CodePoint[c] - 32) ELSE c]
LowerChar == [c \in Chars |-> IF CodePoint[c] \in 65..90 THEN Chr(CodePoint[c] + 32) ELSE c]

\* str.upper() and str.lower()
Upper(s) == [i \in 1..Len(s) |-> UpperChar[s[i]]]
Lower(s) == [i \in 1..Len(s) |-> LowerChar[s[i]]]

\* the characters str.split() and str.strip() treat as whitespace
Whitespace == {" ", "\t"}

Min(a, b) == IF a < b THEN a ELSE b

\* s[a:b] with 0-based, non-negative a and b, clamped as Python clamps them
Slice(s, a, b) == SubSeq(s, Min(a, Len(s)) + 1, Min(b, Len(s)))

\* s[a:]
SliceFrom(s, a) == Slice(s, a, Len(s))

\* c in s, for a character c
Contains(s, c) == \E i \in 1..Len(s) : s[i] = c

\* s.find(c, from): the lowest 0-based index >= from holding c, or -1
RECURSIVE Find(_, _, _)
Find(s, c, from) ==
  IF from >= Len(s) THEN -1
  ELSE IF s[from + 1] = c THEN from
  ELSE Find(s, c, from + 1)

\* s.startswith(p)
StartsWith(s, p) == Len(s) >= Len(p) /\ SubSeq(s, 1, Len(p)) = p

\* s.strip(cs): leading and trailing characters of the set cs removed
RECURSIVE LStrip(_, _)
LStrip(s, cs) == IF s # <<>> /\ s[1] \in cs THEN LStrip(Tail(s), cs) ELSE s

RECURSIVE RStrip(_, _)
RStrip(s, cs) == IF s # <<>> /\ s[Len(s)] \in cs
                 THEN RStrip(SubSeq(s, 1, Len(s) - 1), cs) ELSE s

StripChars(s, cs) == RStrip(LStrip(s, cs), cs)

\* s.strip()
Strip(s) == StripChars(s, Whitespace)

\* s.split(c): every piece between occurrences of the character c
RECURSIVE SplitOn(_, _)
SplitOn(s, c) ==
  LET i == Find(s, c, 0)
  IN  IF i = -1 THEN <<s>>
      ELSE <<Slice(s, 0, i)>> \o SplitOn(SliceFrom(s, i + 1), c)

\* s.split(c, 1): split at the first occurrence of c only
SplitOnce(s, c) ==
  LET i == Find(s, c, 0)
  IN  IF i = -1 THEN <<s>> ELSE <<Slice(s, 0, i), SliceFrom(s, i + 1)>>

\* the 0-based index of the first whitespace of s at or after i, or len(s)
RECURSIVE FirstBlank(_, _)
FirstBlank(s, i) ==
  IF i >= Len(s) THEN Len(s)
  ELSE IF s[i + 1] \in Whitespace THEN i
  ELSE FirstBlank(s, i + 1)

\* s.split(): the maximal runs of non-whitespace characters
RECURSIVE SplitWs(_)
SplitWs(s) ==
  LET t == LStrip(s, Whitespace)
      cut == FirstBlank(t, 0)
  IN  IF t = <<>> THEN <<>>
      ELSE <<Slice(t, 0, cut)>> \o SplitWs(SliceFrom(t, cut))

\* the value of a character as a digit (a..f and A..F are 10..15); 36 for a
\* character that is no digit below base 16
HexDigits == <<"0", "1", "2", "3", "4", "5", "6", "7", "8", "9",
               "a", "b", "c", "d", "e", "f">>

DigitValue ==
  [c \in Chars |->
     IF \E i \in 1..16 : HexDigits[i] = LowerChar[c]
     THEN (CHOOSE i \in 1..16 : HexDigits[i] = LowerChar[c]) - 1
     ELSE 36]

DigitVal(c) == DigitValue[c]

IsDigit(c, base) == DigitValue[c] < base

\* DigitsVal keeping the last digit only
DigitsVal_LastDigit(s, base) == IF s = <<>> THEN 0 ELSE DigitVal(s[Len(s)])

RECURSIVE DigitsVal(_, _)
DigitsVal(s, base) ==
  IF s = <<>> THEN 0
  ELSE IF s[Len(s)] = "_" THEN DigitsVal(SubSeq(s, 1, Len(s) - 1), base)
  ELSE DigitsVal(SubSeq(s, 1, Len(s) - 1), base) * base + DigitVal(s[Len(s)])

\* int(s, base) for base 10 and 16: surrounding whitespace is dropped, one
\* sign is allowed, base 16 allows a 0x prefix, digits may be separated by
\* single underscores; anything else raises ValueError

\* the text after the sign
Unsigned(t) == IF t # <<>> /\ t[1] \in {"+", "-"} THEN Tail(t) ELSE t

\* the digits after a 0x prefix and the one underscore allowed behind it
AfterPrefix(w) == IF w # <<>> /\ w[1] = "_" THEN Tail(w) ELSE w

Unprefixed(u, base) ==
  IF base = 16 /\ Len(u) >= 2 /\ u[1] = "0" /\ u[2] \in {"x", "X"}
  THEN AfterPrefix(SliceFrom(u, 2)) ELSE u

WellFormedDigits(d, base) ==
  /\ d # <<>>
  /\ \A i \in 1..Len(d) : d[i] = "_" \/ IsDigit(d[i], base)
  /\ d[1] # "_" /\ d[Len(d)] # "_"
  /\ \A i \in 1..(Len(d) - 1) : ~(d[i] = "_" /\ d[i + 1] = "_")

IntOfDigits(d, base, negative) ==
  IF ~WellFormedDigits(d, base) THEN Raise("ValueError")
  ELSE Ok(IF negative THEN 0 - DigitsVal(d, base) ELSE DigitsVal(d, base))

IntOfStripped(t, base) ==
  IntOfDigits(Unprefixed(Unsigned(t), base), base, t # <<>> /\ t[1] = "-")

IntOf(s, base) == IntOfStripped(Strip(s), base)

\* str(n) for an integer n
RECURSIVE NatStr(_)
NatStr(n) == IF n < 10 THEN <<Chr(48 + n)>>
             ELSE NatStr(n \div 10) \o <<Chr(48 + (n % 10))>>

Str(n) == IF n < 0 THEN <<"-">> \o NatStr(0 - n) ELSE NatStr(n)

-----------------------------------------------------------------------------
(* GoogleSheets._parse_range *)

RangeInfo(sr, er, sc, ec) ==
  [startRowIndex |-> sr, endRowIndex |-> er,
   startColumnIndex |-> sc, endColumnIndex |-> ec]

\* ParseTwoRefs with exclusive end indices (those of the second reference + 1)
ParseTwoRefs_EndPlusOne(range_str) ==
  LET parts == SplitOn(range_str, ":")
      start_row == IntOf(SliceFrom(parts[1], 1), 10)
      end_row == IntOf(SliceFrom(parts[2], 1), 10)
  IN  IF Len(parts) # 2 THEN Raise("ValueError")
      ELSE IF parts[1] = <<>> THEN Raise("IndexError")
      ELSE IF start_row.exc # "" THEN start_row
      ELSE IF parts[2] = <<>> THEN Raise("IndexError")
      ELSE IF end_row.exc # "" THEN end_row
      ELSE Ok(RangeInfo(start_row.val - 1, end_row.val,
                        Ord(Upper(<<parts[1][1]>>)[1]) - Ord("A"),
                        Ord(Upper(<<parts[2][1]>>)[1]) - Ord("A") + 1))

\* ParseTwoRefs with the two references taken in the wrong order
ParseTwoRefs_Swapped(range_str) ==
  LET parts == SplitOn(range_str, ":")
      start_row == IntOf(SliceFrom(parts[1], 1), 10)
      end_row == IntOf(SliceFrom(parts[2], 1), 10)
  IN  IF Len(parts) # 2 THEN Raise("ValueError")
      ELSE IF parts[1] = <<>> THEN Raise("IndexError")
      ELSE IF start_row.exc # "" THEN start_row
      ELSE IF parts[2] = <<>> THEN Raise("IndexError")
      ELSE IF end_row.exc # "" THEN end_row
      ELSE Ok(RangeInfo(end_row.val - 1, start_row.val - 1,
                        Ord(Upper(<<parts[2][1]>>)[1]) - Ord("A"),
                        Ord(Upper(<<parts[1][1]>>)[1]) - Ord("A")))

\* the branch for 'A1:D1': both references parsed, end indices are those of
\* the second reference
ParseTwoRefs(range_str) ==
  LET parts == SplitOn(range_str, ":")
      start_range == parts[1]
      end_range == parts[2]
      start_row == IntOf(SliceFrom(start_range, 1), 10)
      end_row == IntOf(SliceFrom(end_range, 1), 10)
      start_col == Upper(<<start_range[1]>>)[1]
      end_col == Upper(<<end_range[1]>>)[1]
  IN  IF Len(parts) # 2 THEN Raise("ValueError")
      ELSE IF start_range = <<>> THEN Raise("IndexError")
      ELSE IF start_row.exc # "" THEN start_row
      ELSE IF end_range = <<>> THEN Raise("IndexError")
      ELSE IF end_row.exc # "" THEN end_row
      ELSE Ok(RangeInfo(start_row.val - 1, end_row.val - 1,
                        Ord(start_col) - Ord("A"), Ord(end_col) - Ord("A")))

\* ParseSingleCell with the end indices left at the start indices
ParseSingleCell_NoIncrement(range_str) ==
  LET start_row == IntOf(SliceFrom(range_str, 1), 10)
      start_col_index == Ord(Upper(<<range_str[1]>>)[1]) - Ord("A")
  IN  IF range_str = <<>> THEN Raise("IndexError")
      ELSE IF start_row.exc # "" THEN start_row
      ELSE Ok(RangeInfo(start_row.val - 1, start_row.val - 1,
                        start_col_index, start_col_index))

\* the branch for a single cell: a 1x1 half-open range
ParseSingleCell(range_str) ==
  LET start_col == Upper(<<range_str[1]>>)[1]
      start_row == IntOf(SliceFrom(range_str, 1), 10)
      start_col_index == Ord(start_col) - Ord("A")
  IN  IF range_str = <<>> THEN Raise("IndexError")
      ELSE IF start_row.exc # "" THEN start_row
      ELSE Ok(RangeInfo(start_row.val - 1, (start_row.val - 1) + 1,
                        start_col_index, start_col_index + 1))

_parse_range(range_str) ==
  IF Contains(range_str, ":") THEN ParseTwoRefs(range_str)
  ELSE ParseSingleCell(range_str)

-----------------------------------------------------------------------------
(* GoogleSheets._parse_html_tags *)

\* d[k] = v on a dict
Put(d, k, v) == (k :> v) @@ d

EmptyDict == <<>>

\* a channel value n / 255, kept as the exact quotient
Div255(n) == [num |-> n, den |-> 255]

\* tag_attrs: the key=value words after the first space of the tag, keys
\* lowered, quotes stripped from the value; a later key overwrites
RECURSIVE AttrsOf(_, _)
AttrsOf(attrs, tag_attrs) ==
  IF attrs = <<>> THEN tag_attrs
  ELSE LET attr == Head(attrs)
           kv == SplitOnce(attr, "=")
       IN  IF Contains(attr, "=")
           THEN AttrsOf(Tail(attrs),
                        Put(tag_attrs, Lower(kv[1]), StripChars(kv[2], {"'", "\""})))
           ELSE AttrsOf(Tail(attrs), tag_attrs)

TagAttrs(tag) ==
  IF Contains(tag, " ")
  THEN AttrsOf(SplitWs(Slice(tag, Find(tag, " ", 0) + 1, Len(tag) - 1)), EmptyDict)
  ELSE EmptyDict

\* tag[1:].split()[0].lower()
TagName(tag) == Lower(SplitWs(SliceFrom(tag, 1))[1])

\* '#' dropped from the attribute value
HexOf(value) == IF StartsWith(value, <<"#">>) THEN SliceFrom(value, 1) ELSE value

\* the colour dict of three parsed channels; the first failing int() raises
ColorChannels(r, g, b) ==
  IF r.exc # "" THEN r
  ELSE IF g.exc # "" THEN g
  ELSE IF b.exc # "" THEN b
  ELSE Ok([red |-> Div255(r.val), green |-> Div255(g.val),
           blue |-> Div255(b.val), alpha |-> 1])

\* ColorOfHex with the green and the blue slice exchanged
ColorOfHex_GreenBlueSwapped(color) ==
  ColorChannels(IntOf(Slice(color, 0, 2), 16), IntOf(Slice(color, 4, 6), 16),
                IntOf(Slice(color, 2, 4), 16))

\* three 2-character slices read in base 16 and divided by 255, alpha set to 1
ColorOfHex(color) ==
  ColorChannels(IntOf(Slice(color, 0, 2), 16), IntOf(Slice(color, 2, 4), 16),
                IntOf(Slice(color, 4, 6), 16))

\* the colour of a font/bg tag
ColorOf(value) == ColorOfHex(HexOf(value))

HeadingSize(tag_name) ==
  IF tag_name = <<"h", "1">> THEN 24
  ELSE IF tag_name = <<"h", "2">> THEN 20 ELSE 16

\* the attribute name 'color'; the keys of tag_attrs are str
ColorKey == <<"c", "o", "l", "o", "r">>

\* style[key] = the colour, unless reading the colour raised
WithColor(style, key, c) == IF c.exc # "" THEN c ELSE Ok(Put(style, key, c.val))

\* the if/elif chain "Apply styles" for one opening tag
ApplyTag(style, tag_name, tag_attrs) ==
  IF tag_name \in {<<"b">>, <<"s", "t", "r", "o", "n", "g">>}
  THEN Ok(Put(style, "bold", TRUE))
  ELSE IF tag_name \in {<<"i">>, <<"e", "m">>}
  THEN Ok(Put(style, "italic", TRUE))
  ELSE IF tag_name \in {<<"s">>, <<"s", "t", "r", "i", "k", "e">>, <<"d", "e", "l">>}
  THEN Ok(Put(style, "strikethrough", TRUE))
  ELSE IF tag_name = <<"u">>
  THEN Ok(Put(style, "underline", TRUE))
  ELSE IF tag_name \in {<<"h", "1">>, <<"h", "2">>, <<"h", "3">>}
  THEN Ok(Put(style, "fontSize", HeadingSize(tag_name)))
  ELSE IF tag_name = <<"s", "m", "a", "l", "l">>
  THEN Ok(Put(style, "fontSize", 10))
  ELSE IF tag_name = <<"f", "o", "n", "t">>
  THEN IF ColorKey \in DOMAIN tag_attrs
       THEN WithColor(style, "foregroundColor", ColorOf(tag_attrs[ColorKey]))
       ELSE Ok(style)
  ELSE IF tag_name = <<"b", "g">>
  THEN IF ColorKey \in DOMAIN tag_attrs
       THEN WithColor(style, "backgroundColor", ColorOf(tag_attrs[ColorKey]))
       ELSE Ok(style)
  ELSE IF tag_name \in {<<"c", "e", "n", "t", "e", "r">>, <<"l", "e", "f", "t">>,
                        <<"r", "i", "g", "h", "t">>}
  THEN Ok(Put(style, "horizontalAlignment", Upper(tag_name)))
  ELSE Ok(style)

\* the while loop: the first '<'...'>' is cut out of content, a closing tag
\* is dropped, an opening tag is applied to style
RECURSIVE TagLoop(_, _)

\* the loop goes on with the style an opening tag gave, unless it raised
NextTag(rest, applied) ==
  IF applied.exc # "" THEN applied ELSE TagLoop(rest, applied.val)

\* TagLoop in which a closing tag takes back the style set so far
TagLoop_ClosingUndoes(content, style) ==
  IF ~(Contains(content, "<") /\ Contains(content, ">"))
  THEN Ok([content |-> content, style |-> style])
  ELSE LET start == Find(content, "<", 0)
           end == Find(content, ">", start)
           tag == Slice(content, start, end + 1)
           rest == Slice(content, 0, start) \o SliceFrom(content, end + 1)
       IN  IF end = -1 THEN Ok([content |-> content, style |-> style])
           ELSE IF StartsWith(tag, <<"<", "/">>) THEN TagLoop(rest, EmptyDict)
           ELSE NextTag(rest, ApplyTag(style, TagName(tag), TagAttrs(tag)))

TagLoop(content, style) ==
  IF ~(Contains(content, "<") /\ Contains(content, ">"))
  THEN Ok([content |-> content, style |-> style])
  ELSE LET start == Find(content, "<", 0)
           end == Find(content, ">", start)
           tag == Slice(content, start, end + 1)
           rest == Slice(content, 0, start) \o SliceFrom(content, end + 1)
       IN  IF end = -1 THEN Ok([content |-> content, style |-> style])
           ELSE IF StartsWith(tag, <<"<", "/">>) THEN TagLoop(rest, style)
           ELSE NextTag(rest, ApplyTag(style, TagName(tag), TagAttrs(tag)))

\* a dict key of attribute names cannot be "isNone", so None is no style
Cleaned(scanned) ==
  IF scanned.exc # "" THEN scanned
  ELSE Ok([text |-> Strip(scanned.val.content),
           style |-> IF DOMAIN scanned.val.style # {}
                     THEN scanned.val.style ELSE None])

_parse_html_tags(text) == Cleaned(TagLoop(text, EmptyDict))

-----------------------------------------------------------------------------
(* GoogleSheets._parse_html_tags, one pass of its while loop at a time *)

\* the loop takes another pass: "while '<' in content and '>' in content",
\* and no break at "if end == -1"
LoopRuns(content) ==
  /\ Contains(content, "<")
  /\ Contains(content, ">")
  /\ Find(content, ">", Find(content, "<", 0)) # -1

\* the locals after a pass that cut the tag out and left rest: raised is
\* the exception of the pass, "" when it has none
Passed(rest, style, applied) ==
  IF applied.exc # "" THEN [raised |-> applied.exc, content |-> rest, style |-> style]
  ELSE [raised |-> "", content |-> rest, style |-> applied.val]

\* one pass of the loop over the tag content[start:end+1]
PassOver(content, style, start, end) ==
  IF StartsWith(Slice(content, start, end + 1), <<"<", "/">>)
  THEN Passed(Slice(content, 0, start) \o SliceFrom(content, end + 1), style, Ok(style))
  ELSE Passed(Slice(content, 0, start) \o SliceFrom(content, end + 1), style,
              ApplyTag(style, TagName(Slice(content, start, end + 1)),
                       TagAttrs(Slice(content, start, end + 1))))

\* Pass that leaves the tag in content
Pass_KeepsTag(content, style) ==
  [raised |-> "", content |-> content, style |-> style]

Pass(content, style) ==
  PassOver(content, style, Find(content, "<", 0), Find(content, ">", Find(content, "<", 0)))
-----------------------------------------------------------------------------
(* Values of the caller *)

\* a cell value is a str or an int
StrV(s) == [t |-> "str", s |-> s]
IntV(n) == [t |-> "int", n |-> n]

\* str(value)
StrOf(value) == IF value.t = "str" THEN value.s ELSE Str(value.n)

\* update['range'] is a str or a dict
RangeStr(s) == [isStr |-> TRUE, s |-> s]
RangeDict(d) == [isStr |-> FALSE, d |-> d]

\* the truth value of a format object: None and {} are false
Truthy(format_config) == format_config # None /\ DOMAIN format_config # {}

-----------------------------------------------------------------------------
(* GoogleSheets.batch_update_cells: the request builder *)

\* cell_data['userEnteredFormat']['textFormat'] is the very dict object
\* format_config['textFormat'] (assigned, not copied): the cell holds this
\* reference until the body is sent
Alias == [alias |-> TRUE]

TextKeys == {"bold", "italic", "strikethrough", "underline", "fontSize",
             "foregroundColor"}

\* the dict d restricted to the keys ks
Restrict(d, ks) == [k \in (DOMAIN d) \cap ks |-> d[k]]

\* "Apply default styles": the caller's textFormat (by reference) and
\* backgroundColor
DefaultFormat(format_config) ==
  IF Truthy(format_config)
  THEN Restrict(format_config, {"backgroundColor"})
       @@ (IF "textFormat" \in DOMAIN format_config
           THEN "textFormat" :> Alias ELSE EmptyDict)
  ELSE EmptyDict

\* "Apply HTML tag styles" on userEnteredFormat fmt0; tf is the present
\* content of format_config['textFormat'], which the text keys are written
\* into when the cell's textFormat is that object
StyledFormat(fmt0, style, tf) ==
  LET textStyle == Restrict(style, TextKeys)
      aliased == "textFormat" \in DOMAIN fmt0
  IN  [fmt |-> Restrict(style, {"backgroundColor", "horizontalAlignment"})
               @@ (IF aliased THEN fmt0 ELSE Put(fmt0, "textFormat", textStyle)),
       tf |-> IF aliased THEN textStyle @@ tf ELSE tf]

\* userEnteredFormat and the textFormat content after the cell's style
Styled(fmt0, style, tf) ==
  IF style # None THEN StyledFormat(fmt0, style, tf) ELSE [fmt |-> fmt0, tf |-> tf]

CellOf(text, styled) ==
  [exc |-> "",
   cell_data |-> ("userEnteredValue" :> [stringValue |-> text])
                 @@ ("userEnteredFormat" :> styled.fmt),
   tf |-> styled.tf]

\* the cell of the parsed text, unless parsing raised
ParsedCell(parsed, format_config, tf) ==
  IF parsed.exc # "" THEN [exc |-> parsed.exc, cell_data |-> None, tf |-> tf]
  ELSE CellOf(parsed.val.text,
              Styled(DefaultFormat(format_config), parsed.val.style, tf))

\* CellData without the empty-string case: "" is written like any other text
CellData_NoSentinel(value, format_config, tf) ==
  ParsedCell(_parse_html_tags(StrOf(value)), format_config, tf)

\* one cell of a row: [exc, cell_data, tf]
CellData(value, format_config, tf) ==
  IF value.t = "str" /\ value.s = <<>>
  THEN [exc |-> "", cell_data |-> ("userEnteredValue" :> None), tf |-> tf]
  ELSE ParsedCell(_parse_html_tags(StrOf(value)), format_config, tf)

\* "for value in row": [exc, values, tf]
RECURSIVE RowData(_, _, _)

RowJoined(c, more) ==
  [exc |-> more.exc, values |-> <<c.cell_data>> \o more.values, tf |-> more.tf]

\* the row goes on after the cell c, unless building c raised
RowAfter(c, row, format_config) ==
  IF c.exc # "" THEN [exc |-> c.exc, values |-> <<>>, tf |-> c.tf]
  ELSE RowJoined(c, RowData(Tail(row), format_config, c.tf))

RowData(row, format_config, tf) ==
  IF row = <<>> THEN [exc |-> "", values |-> <<>>, tf |-> tf]
  ELSE RowAfter(CellData(Head(row), format_config, tf), row, format_config)

\* "for row in values": [exc, rows, tf]
RECURSIVE Rows(_, _, _)

RowsJoined(r, more) ==
  [exc |-> more.exc, rows |-> <<[values |-> r.values]>> \o more.rows, tf |-> more.tf]

\* the rows go on after the row r, unless building r raised
RowsAfter(r, values, format_config) ==
  IF r.exc # "" THEN [exc |-> r.exc, rows |-> <<>>, tf |-> r.tf]
  ELSE RowsJoined(r, Rows(Tail(values), format_config, r.tf))

Rows(values, format_config, tf) ==
  IF values = <<>> THEN [exc |-> "", rows |-> <<>>, tf |-> tf]
  ELSE RowsAfter(RowData(Head(values), format_config, tf), values, format_config)

\* the body is serialised when it is sent: every cell holding the reference
\* shows the final content tf of the caller's textFormat
ResolveCell(cell_data, tf) ==
  IF "userEnteredFormat" \in DOMAIN cell_data
     /\ "textFormat" \in DOMAIN cell_data["userEnteredFormat"]
     /\ cell_data["userEnteredFormat"]["textFormat"] = Alias
  THEN Put(cell_data, "userEnteredFormat",
           Put(cell_data["userEnteredFormat"], "textFormat", tf))
  ELSE cell_data

ResolveRows(rows, tf) ==
  [i \in 1..Len(rows) |->
     [values |-> [j \in 1..Len(rows[i].values) |->
                    ResolveCell(rows[i].values[j], tf)]]]

\* the range sent to the service: both end indices of range_info plus 1
SentRange(sheet_id, range_info) ==
  [sheetId |-> sheet_id,
   startRowIndex |-> range_info.startRowIndex,
   endRowIndex |-> range_info.endRowIndex + 1,
   startColumnIndex |-> range_info.startColumnIndex,
   endColumnIndex |-> range_info.endColumnIndex + 1]

\* update.get(key, default)
Get(update, key, default) == IF key \in DOMAIN update THEN update[key] ELSE default

\* the caller's format object of a descriptor after its textFormat was
\* written to
FormatAfter(format_config, tf) ==
  IF Truthy(format_config) /\ "textFormat" \in DOMAIN format_config
  THEN Put(format_config, "textFormat", tf) ELSE format_config

\* Appended with the merge request put before the cell request
Appended_MergeFirst(cell_request, merge_request, merge) ==
  IF merge THEN <<merge_request, cell_request>> ELSE <<cell_request>>

\* requests.append(cell_request), then requests.append(merge_request) "if merge"
Appended(cell_request, merge_request, merge) ==
  IF merge THEN <<cell_request, merge_request>> ELSE <<cell_request>>

\* the range of a descriptor: a str is parsed, a dict is taken as it is
RangeInfoOf(range) == IF range.isStr THEN _parse_range(range.s) ELSE Ok(range.d)

\* the present content of format_config['textFormat']
TextFormatOf(format_config) ==
  IF Truthy(format_config) /\ "textFormat" \in DOMAIN format_config
  THEN format_config["textFormat"] ELSE EmptyDict

CellRequest(sheet_id, range_info, built) ==
  "updateCells" :> [range |-> SentRange(sheet_id, range_info),
                    rows |-> ResolveRows(built.rows, built.tf),
                    fields |-> "*"]

MergeRequest(sheet_id, range_info) ==
  "mergeCells" :> [range |-> SentRange(sheet_id, range_info),
                   mergeType |-> "MERGE_ALL"]

\* the requests of a descriptor whose rows are built, unless building raised
BuiltRequests(sheet_id, range_info, built, merge, format_config) ==
  IF built.exc # ""
  THEN [exc |-> built.exc, requests |-> <<>>,
        format |-> FormatAfter(format_config, built.tf)]
  ELSE [exc |-> "",
        requests |-> Appended(CellRequest(sheet_id, range_info, built),
                              MergeRequest(sheet_id, range_info), merge),
        format |-> FormatAfter(format_config, built.tf)]

\* the requests of a descriptor whose range is read, unless reading raised
RangedRequests(update, sheet_id, range_info, format_config) ==
  IF range_info.exc # ""
  THEN [exc |-> range_info.exc, requests |-> <<>>, format |-> format_config]
  ELSE BuiltRequests(sheet_id, range_info.val,
                     Rows(update["values"], format_config, TextFormatOf(format_config)),
                     Get(update, "merge", FALSE), format_config)

\* the body of "for update in updates" for one descriptor:
\* [exc, requests (those it appends), format (the caller's object after)]
Requests(update, sheet_id) ==
  IF ~("range" \in DOMAIN update /\ "values" \in DOMAIN update)
  THEN [exc |-> "", requests |-> <<>>, format |-> Get(update, "format", EmptyDict)]
  ELSE RangedRequests(update, sheet_id, RangeInfoOf(update["range"]),
                      Get(update, "format", EmptyDict))

\* "for update in updates": [exc, requests, formats]; a descriptor after the
\* one that raised is not reached and keeps its format
RECURSIVE Build(_, _)

BuildJoined(one, more) ==
  [exc |-> more.exc,
   requests |-> IF more.exc # "" THEN <<>> ELSE one.requests \o more.requests,
   formats |-> <<one.format>> \o more.formats]

\* BuildAfter that skips a descriptor that raised and goes on with the next
BuildAfter_Recovers(one, updates, sheet_id) ==
  BuildJoined([exc |-> "", requests |-> IF one.exc # "" THEN <<>> ELSE one.requests,
               format |-> one.format],
              Build(Tail(updates), sheet_id))

BuildAfter(one, updates, sheet_id) ==
  IF one.exc # ""
  THEN [exc |-> one.exc, requests |-> <<>>,
        formats |-> <<one.format>>
                    \o [i \in 1..(Len(updates) - 1) |->
                          Get(updates[i + 1], "format", EmptyDict)]]
  ELSE BuildJoined(one, Build(Tail(updates), sheet_id))

Build(updates, sheet_id) ==
  IF updates = <<>> THEN [exc |-> "", requests |-> <<>>, formats |-> <<>>]
  ELSE BuildAfter(Requests(Head(updates), sheet_id), updates, sheet_id)

-----------------------------------------------------------------------------
(* The remote service, as the handlers see it *)

\* service.spreadsheets().get(...).execute()
GetCall == [api |-> "get"]

\* service.spreadsheets().batchUpdate(body={'requests': requests}).execute()
BatchUpdateCall(requests) == [api |-> "batchUpdate", requests |-> requests]

\* what a remote call can do: answer, answer without replies, or raise
Outcomes == {"ok", "noreplies", "raise"}

\* the outcomes of spreadsheets().get: the spreadsheet, or an error
GetOutcomes == {"ok", "raise"}

\* the ids the service can give a new sheet
SheetIds == {0, 7, 9}

NewIds(sh) == SheetIds \ {sh[n] : n \in DOMAIN sh}

Fail(error) == [success |-> FALSE, error |-> error]

\* the lookup loop over spreadsheet.get('sheets', []): sheet_id is None when
\* no sheet has the title
SheetMissing(sh, sheet_name) == sheet_name \notin DOMAIN sh

-----------------------------------------------------------------------------
(* GoogleSheets.add_sheet *)

\* the outcomes of the addSheet call of an invocation: its answer and the id
\* of the new sheet; the call is issued only when the title is missing
AddScenarios(sh, sheet_name) ==
  IF SheetMissing(sh, sheet_name) THEN [out : Outcomes, id : NewIds(sh)]
  ELSE {[out |-> "ok", id |-> CHOOSE i \in NewIds(sh) : TRUE]}

AddSheetRequest(sheet_name) ==
  "addSheet" :> [title |-> sheet_name, rowCount |-> 1000, columnCount |-> 26]

\* [ret, sheets, sent] for the service outcome out and new id new_sheet_id
add_sheet(sh, sheet_name, out, new_sheet_id) ==
  LET issued == <<BatchUpdateCall(<<AddSheetRequest(sheet_name)>>)>>
  IN  IF out = "raise"
      THEN [ret |-> Fail("HttpError"), sheets |-> sh, sent |-> issued]
      ELSE IF out = "noreplies"
      THEN [ret |-> Fail("Failed to add new sheet"), sheets |-> sh, sent |-> issued]
      ELSE [ret |-> [success |-> TRUE,
                     result |-> [sheet_id |-> new_sheet_id, sheet_name |-> sheet_name]],
            sheets |-> Put(sh, sheet_name, new_sheet_id),
            sent |-> issued]

-----------------------------------------------------------------------------
(* GoogleSheets.batch_update_cells *)

\* the call up to the point where the body is handed to batchUpdate:
\* done when it has returned before that point, else requests is the body.
\* getOut is the outcome of spreadsheets().get, addOut and newId those of
\* the addSheet call
BatchBuilt(built, sh1, sent1) ==
  IF built.exc # ""
  THEN [done |-> TRUE, ret |-> Fail(built.exc), sheets |-> sh1,
        sent |-> sent1, formats |-> built.formats]
  ELSE IF built.requests = <<>>
  THEN [done |-> TRUE, ret |-> Fail("No valid update requests found"),
        sheets |-> sh1, sent |-> sent1, formats |-> built.formats]
  ELSE [done |-> FALSE, requests |-> built.requests, sheets |-> sh1,
        sent |-> sent1, formats |-> built.formats]

\* BatchCreated with the id of the first sheet used for a created sheet
BatchCreated_FirstSheet(sh, sheet_name, updates, create_result) ==
  IF ~SheetMissing(sh, sheet_name)
  THEN BatchBuilt(Build(updates, sh[sheet_name]), sh, <<GetCall>>)
  ELSE IF ~create_result.ret.success
  THEN [done |-> TRUE, ret |-> create_result.ret, sheets |-> create_result.sheets,
        sent |-> <<GetCall>> \o create_result.sent,
        formats |-> [i \in 1..Len(updates) |-> Get(updates[i], "format", EmptyDict)]]
  ELSE BatchBuilt(Build(updates, 0),
                  create_result.sheets, <<GetCall>> \o create_result.sent)

\* "if sheet_id is None": the sheet is created first, and a failed creation
\* is returned; create_result is what add_sheet gives when it is called
BatchCreated(sh, sheet_name, updates, create_result) ==
  IF ~SheetMissing(sh, sheet_name)
  THEN BatchBuilt(Build(updates, sh[sheet_name]), sh, <<GetCall>>)
  ELSE IF ~create_result.ret.success
  THEN [done |-> TRUE, ret |-> create_result.ret, sheets |-> create_result.sheets,
        sent |-> <<GetCall>> \o create_result.sent,
        formats |-> [i \in 1..Len(updates) |-> Get(updates[i], "format", EmptyDict)]]
  ELSE BatchBuilt(Build(updates, create_result.ret.result.sheet_id),
                  create_result.sheets, <<GetCall>> \o create_result.sent)

BatchPrepare(sh, sheet_name, updates, getOut, addOut, newId) ==
  IF getOut = "raise"
  THEN [done |-> TRUE, ret |-> Fail("HttpError"), sheets |-> sh,
        sent |-> <<GetCall>>,
        formats |-> [i \in 1..Len(updates) |-> Get(updates[i], "format", EmptyDict)]]
  ELSE BatchCreated(sh, sheet_name, updates, add_sheet(sh, sheet_name, addOut, newId))

\* BatchFinish that takes any answer of the service for an acknowledgment
BatchFinish_Unchecked(p, cellsOut) ==
  IF p.done
  THEN [ret |-> p.ret, sheets |-> p.sheets, sent |-> p.sent, formats |-> p.formats,
        answer |-> "none"]
  ELSE [ret |-> IF cellsOut = "raise" THEN Fail("HttpError")
                ELSE [success |-> TRUE, result |-> "replies"],
        sheets |-> p.sheets,
        sent |-> p.sent \o <<BatchUpdateCall(p.requests)>>,
        formats |-> p.formats, answer |-> cellsOut]

\* BatchFinish that sends the body a second time when the first call got no
\* acknowledgment
BatchFinish_Retries(p, cellsOut) ==
  IF p.done
  THEN [ret |-> p.ret, sheets |-> p.sheets, sent |-> p.sent, formats |-> p.formats,
        answer |-> "none"]
  ELSE [ret |-> IF cellsOut = "raise" THEN Fail("HttpError")
                ELSE IF cellsOut = "noreplies" THEN Fail("Failed to batch update cells")
                ELSE [success |-> TRUE, result |-> "replies"],
        sheets |-> p.sheets,
        sent |-> IF cellsOut = "ok" THEN p.sent \o <<BatchUpdateCall(p.requests)>>
                 ELSE p.sent \o <<BatchUpdateCall(p.requests), BatchUpdateCall(p.requests)>>,
        formats |-> p.formats, answer |-> cellsOut]

\* the batchUpdate of the body and the return; cellsOut is its outcome
BatchFinish(p, cellsOut) ==
  IF p.done
  THEN [ret |-> p.ret, sheets |-> p.sheets, sent |-> p.sent, formats |-> p.formats,
        answer |-> "none"]
  ELSE [ret |-> IF cellsOut = "raise" THEN Fail("HttpError")
                ELSE IF cellsOut = "noreplies" THEN Fail("Failed to batch update cells")
                ELSE [success |-> TRUE, result |-> "replies"],
        sheets |-> p.sheets,
        sent |-> p.sent \o <<BatchUpdateCall(p.requests)>>,
        formats |-> p.formats, answer |-> cellsOut]

\* [ret, sheets, sent, formats] of one invocation
batch_update_cells(sh, sheet_name, updates, getOut, addOut, newId, cellsOut) ==
  BatchFinish(BatchPrepare(sh, sheet_name, updates, getOut, addOut, newId), cellsOut)

-----------------------------------------------------------------------------
(* GoogleSheets.update_cells *)

\* the format argument: None, a dict, or a str holding JSON
FormatNone == [kind |-> "none"]
FormatDict(d) == [kind |-> "dict", d |-> d]
FormatJson(s) == [kind |-> "str", s |-> s]

\* json.loads on the documents the callers of this model send; every other
\* text raises JSONDecodeError
JsonEmptyObject == <<"{", "}">>
JsonBoldFormat ==
  <<"{", "\"", "t", "e", "x", "t", "F", "o", "r", "m", "a", "t", "\"", ":", " ",
    "{", "\"", "b", "o", "l", "d", "\"", ":", " ", "t", "r", "u", "e", "}", "}">>

JsonLoads(s) ==
  IF Strip(s) = JsonEmptyObject THEN Ok(EmptyDict)
  ELSE IF Strip(s) = JsonBoldFormat THEN Ok("textFormat" :> ("bold" :> TRUE))
  ELSE Raise("JSONDecodeError")

\* DimensionMismatch with the check left out
DimensionMismatch_Never(values, range_info) == FALSE

\* any(len(row) != expected_cols for row in values)
DimensionMismatch(values, range_info) ==
  LET expected_cols == range_info.endColumnIndex - range_info.startColumnIndex
  IN  \E i \in 1..Len(values) : Len(values[i]) # expected_cols

\* a return before batch_update_cells is called
Early(sh, format, r) ==
  [done |-> TRUE, ret |-> r, sheets |-> sh, sent |-> <<GetCall>>,
   formats |-> <<IF format.kind = "dict" THEN format.d ELSE None>>]

\* Decoded that drops a str format instead of decoding it
Decoded_Dropped(format) ==
  IF format.kind = "dict" THEN Ok(format.d) ELSE Ok(None)

\* format_dict: json.loads of a str, the dict itself, or None
Decoded(format) ==
  IF format.kind = "str" THEN JsonLoads(format.s)
  ELSE IF format.kind = "dict" THEN Ok(format.d) ELSE Ok(None)

\* the one descriptor handed to batch_update_cells
Updates(sheet_id, range_info, values, format_dict) ==
  <<[range |-> RangeDict(SentRange(sheet_id, range_info)),
     values |-> values, merge |-> FALSE, format |-> format_dict]>>

\* "return self.batch_update_cells(...)": p is what the inner call did
Delegated(p, format) ==
  [p EXCEPT !.sent = <<GetCall>> \o p.sent,
            !.formats = IF format.kind = "dict" THEN p.formats ELSE <<None>>]

UpdateChecked(sh, values, sheet_name, format, range_info, decoded, getOut2, addOut, newId) ==
  IF DimensionMismatch(values, range_info)
  THEN Early(sh, format,
             [success |-> FALSE, error |-> "Data dimensions do not match range",
              expected |-> range_info.endColumnIndex - range_info.startColumnIndex,
              got |-> Len(values[1])])
  ELSE IF decoded.exc # "" THEN Early(sh, format, Fail("Invalid format parameter"))
  ELSE Delegated(BatchPrepare(sh, sheet_name,
                              Updates(sh[sheet_name], range_info, values, decoded.val),
                              getOut2, addOut, newId), format)

UpdateRanged(sh, values, sheet_name, format, range_info, getOut2, addOut, newId) ==
  IF range_info.exc # "" THEN Early(sh, format, Fail(range_info.exc))
  ELSE UpdateChecked(sh, values, sheet_name, format, range_info.val,
                     Decoded(format), getOut2, addOut, newId)

\* UpdatePrepare that hands a missing sheet to batch_update_cells, which
\* creates it, instead of returning "Sheet not found"
UpdatePrepare_Creates(sh, values, range_name, sheet_name, format, getOut, getOut2, addOut, newId) ==
  IF getOut = "raise" THEN Early(sh, format, Fail("HttpError"))
  ELSE IF SheetMissing(sh, sheet_name)
  THEN Delegated(BatchPrepare(sh, sheet_name,
                              <<[range |-> RangeStr(range_name), values |-> values,
                                 merge |-> FALSE]>>,
                              getOut2, addOut, newId), format)
  ELSE UpdateRanged(sh, values, sheet_name, format, _parse_range(range_name),
                    getOut2, addOut, newId)

\* the call up to the batchUpdate inside batch_update_cells: done when it has
\* returned before that point.  getOut and getOut2 are the outcomes of the
\* two spreadsheets().get calls (its own and that of batch_update_cells)
UpdatePrepare(sh, values, range_name, sheet_name, format, getOut, getOut2, addOut, newId) ==
  IF getOut = "raise" THEN Early(sh, format, Fail("HttpError"))
  ELSE IF SheetMissing(sh, sheet_name) THEN Early(sh, format, Fail("Sheet not found"))
  ELSE UpdateRanged(sh, values, sheet_name, format, _parse_range(range_name),
                    getOut2, addOut, newId)

\* [ret, sheets, sent, formats] of one invocation
update_cells(sh, values, range_name, sheet_name, format, getOut, getOut2, addOut, newId, cellsOut) ==
  BatchFinish(UpdatePrepare(sh, values, range_name, sheet_name, format,
                            getOut, getOut2, addOut, newId), cellsOut)

-----------------------------------------------------------------------------
(* GoogleSheets.list_sheets *)

\* spreadsheet.get('sheets', []): the sheets of sh, here in the order of
\* their ids
RECURSIVE SheetList(_)
SheetList(sh) ==
  IF DOMAIN sh = {} THEN <<>>
  ELSE LET first == CHOOSE n \in DOMAIN sh : \A o \in DOMAIN sh : sh[n] <= sh[o]
       IN  <<[properties |-> [title |-> first, sheetId |-> sh[first]]]>>
           \o SheetList([n \in DOMAIN sh \ {first} |-> sh[n]])

\* no try/except: the list is returned as it is, and an error of
\* spreadsheets().get leaves the method as an exception
list_sheets(sh, getOut) ==
  IF getOut = "raise" THEN Raise("HttpError") ELSE Ok(SheetList(sh))


-----------------------------------------------------------------------------
(* GoogleSheets.rename_sheet and GoogleSheets.duplicate_sheet *)

\* an id, where None can stand as well
Id(s) == [isNone |-> FALSE, id |-> s]

\* spreadsheets().sheets().copyTo(sheetId=sheet_id, ...)
CopyToCall(sheet_id) == [api |-> "copyTo", sheetId |-> sheet_id]

RenameRequest(sheet_id, new_name) ==
  "updateSheetProperties" :> [sheetId |-> sheet_id, title |-> new_name, fields |-> "title"]

\* the ids of the sheets of the spreadsheet
IdsOf(sh) == {sh[n] : n \in DOMAIN sh}

TitleOf(sh, sheet_id) == CHOOSE n \in DOMAIN sh : sh[n] = sheet_id

\* the title the service gives the copy of a sheet
CopyTitle == ("Sheet1" :> "Copy of Sheet1") @@ ("Data" :> "Copy of Data")

\* the spreadsheet after the sheet sheet_id got the title new_name
Retitled(sh, sheet_id, new_name) ==
  [n \in (DOMAIN sh \ {TitleOf(sh, sheet_id)}) \cup {new_name} |->
     IF n = new_name THEN sheet_id ELSE sh[n]]

\* the spreadsheet after copyTo made the copy newId of the sheet sheet_id
AfterCopy(sh, sheet_id, newId) ==
  IF sheet_id \in IdsOf(sh) THEN Put(sh, CopyTitle[TitleOf(sh, sheet_id)], newId) ELSE sh

\* the service refuses a copy of a sheet that does not exist
CopyAnswers(sh, sheet_id) == IF sheet_id \in IdsOf(sh) THEN {"ok", "raise"} ELSE {"raise"}

\* the service refuses to rename a sheet that does not exist, or to give a
\* sheet the title of another one
RenameAnswers(sh, sheet_id, new_name) ==
  IF sheet_id \notin IdsOf(sh) \/ (new_name \in DOMAIN sh /\ sh[new_name] # sheet_id)
  THEN {"raise"} ELSE Outcomes

\* [ret, sheets, sent] of rename_sheet when the service answers out
rename_sheet(sh, sheet_id, new_name, out) ==
  LET issued == <<BatchUpdateCall(<<RenameRequest(sheet_id, new_name)>>)>>
  IN  IF out = "raise"
      THEN [ret |-> Fail("HttpError"), sheets |-> sh, sent |-> issued]
      ELSE IF out = "noreplies"
      THEN [ret |-> Fail("Failed to rename sheet"), sheets |-> sh, sent |-> issued]
      ELSE [ret |-> [success |-> TRUE, result |-> "replies"],
            sheets |-> Retitled(sh, sheet_id, new_name), sent |-> issued]

\* "not x" of result.get('sheetId'): None and 0 are false
Falsy(new_sheet_id) == new_sheet_id.isNone \/ new_sheet_id.id = 0

\* "if not rename_result": a dict is false only when it has no key
NotResult(rename_result) == DOMAIN rename_result = {}

\* "Rename new sheet" and the return; renamed is what rename_sheet gave
\* when the service answered out
DuplicateRenamed(result, renamed, sent1, out) ==
  [ret |-> IF NotResult(renamed.ret) THEN Fail("Failed to rename new sheet")
           ELSE [success |-> TRUE, result |-> result],
   sheets |-> renamed.sheets, sent |-> sent1 \o renamed.sent,
   formats |-> <<>>, answer |-> out]

\* "Get new sheet ID": result is the answer of copyTo, sh1 the spreadsheet
\* with the copy in it
DuplicateCopied(sh1, result, new_name, sent1, renameOut) ==
  LET new_sheet_id == IF "sheetId" \in DOMAIN result THEN Id(result["sheetId"]) ELSE None
  IN  IF Falsy(new_sheet_id)
      THEN [ret |-> Fail("Failed to get new sheet ID"), sheets |-> sh1, sent |-> sent1,
            formats |-> <<>>, answer |-> "none"]
      ELSE DuplicateRenamed(result, rename_sheet(sh1, new_sheet_id.id, new_name, renameOut),
                            sent1, renameOut)

\* [ret, sheets, sent, formats, answer] of one invocation: copyOut and newId
\* are the answer of copyTo and the id of the copy, renameOut the answer to
\* the rename
duplicate_sheet(sh, sheet_id, new_name, copyOut, newId, renameOut) ==
  IF copyOut = "raise"
  THEN [ret |-> Fail("HttpError"), sheets |-> sh, sent |-> <<CopyToCall(sheet_id)>>,
        formats |-> <<>>, answer |-> "none"]
  ELSE DuplicateCopied(AfterCopy(sh, sheet_id, newId),
                       "sheetId" :> newId, new_name, <<CopyToCall(sheet_id)>>, renameOut)

-----------------------------------------------------------------------------
(* GoogleDocs._parse_color and GoogleSlides._parse_color *)

\* the rgbColor dict of three parsed channels; the first failing int() raises
RgbChannels(r, g, b) ==
  IF r.exc # "" THEN r
  ELSE IF g.exc # "" THEN g
  ELSE IF b.exc # "" THEN b
  ELSE Ok([red |-> Div255(r.val), green |-> Div255(g.val), blue |-> Div255(b.val)])

\* the three 2-character slices of a 6-character text read in base 16
RgbOfHex(color) ==
  IF Len(color) = 6
  THEN RgbChannels(IntOf(Slice(color, 0, 2), 16), IntOf(Slice(color, 2, 4), 16),
                   IntOf(Slice(color, 4, 6), 16))
  ELSE Raise("ValueError")

\* src/google_docs.py
GoogleDocs_parse_color(color) == RgbOfHex(HexOf(color))

\* src/google_slides.py: the same text as in src/google_docs.py
GoogleSlides_parse_color(color) == RgbOfHex(HexOf(color))

-----------------------------------------------------------------------------
(* GoogleSheets.batch_update_cells, one remote call at a time: the steps of *)
(* a call that runs while another call is under way                        *)

\* a caller: its position ("called": before spreadsheets().get; "create":
\* sheet_id is None, before add_sheet; "build": sheet_id known, before the
\* loop; "returned"), its arguments, its local sheet_id, what its get showed
\* for its sheet name, and its result
NewCaller(sheet_name, updates) ==
  [pc |-> "called", sheet_name |-> sheet_name, updates |-> updates, sheet_id |-> 0,
   seen |-> "unread", ret |-> None]

\* a step of a caller: the caller after it, the spreadsheet after it and the
\* remote calls issued by it
Step(c, sh, issued) == [caller |-> c, sheets |-> sh, sent |-> issued]

\* what the service answers to addSheet: it refuses a title a sheet already
\* has
AddAnswers(sh, sheet_name) ==
  IF SheetMissing(sh, sheet_name) THEN [out : Outcomes, id : NewIds(sh)]
  ELSE [out : {"raise"}, id : {0}]

\* spreadsheets().get and the lookup loop: the spreadsheet is read anew by
\* every call
ResolveStep(c, sh, getOut) ==
  IF getOut = "raise"
  THEN Step([c EXCEPT !.pc = "returned", !.ret = Fail("HttpError")], sh, <<GetCall>>)
  ELSE IF SheetMissing(sh, c.sheet_name)
  THEN Step([c EXCEPT !.pc = "create", !.seen = "absent"], sh, <<GetCall>>)
  ELSE Step([c EXCEPT !.pc = "build", !.seen = "present", !.sheet_id = sh[c.sheet_name]],
            sh, <<GetCall>>)

\* the step after "if sheet_id is None", given what add_sheet did
Created(c, create_result) ==
  IF ~create_result.ret.success
  THEN Step([c EXCEPT !.pc = "returned", !.ret = create_result.ret],
            create_result.sheets, create_result.sent)
  ELSE Step([c EXCEPT !.pc = "build", !.sheet_id = create_result.ret.result.sheet_id],
            create_result.sheets, create_result.sent)

\* CreateStep that looks the title up again and sends no addSheet for a
\* title that exists by now
CreateStep_LooksAgain(c, sh, addOut, newId) ==
  IF SheetMissing(sh, c.sheet_name)
  THEN Created(c, add_sheet(sh, c.sheet_name, addOut, newId))
  ELSE Step([c EXCEPT !.pc = "build", !.sheet_id = sh[c.sheet_name]], sh, <<>>)

\* "create_result = self.add_sheet(...)": sent whatever the spreadsheet holds
\* by now
CreateStep(c, sh, addOut, newId) ==
  Created(c, add_sheet(sh, c.sheet_name, addOut, newId))

\* the loop and the batchUpdate of the cell requests, given what they did
Written(c, finished) ==
  Step([c EXCEPT !.pc = "returned", !.ret = finished.ret], finished.sheets, finished.sent)

WriteStep(c, sh, cellsOut) ==
  Written(c, BatchFinish(BatchBuilt(Build(c.updates, c.sheet_id), sh, <<>>), cellsOut))

-----------------------------------------------------------------------------
(* The update_cells tool of src/main.py *)

\* "def update_cells(self, values, range_name, sheet_name, spreadsheet_id,
\*  format=None)": the parameters of the engine, in the order of its signature
EngineSignature == <<"values", "range_name", "sheet_name", "spreadsheet_id", "format">>

\* "sheets.update_cells(spreadsheet_id, sheet_name, range_name, values)": the
\* variables of the tool, in the order the call passes them
ToolPasses == <<"spreadsheet_id", "sheet_name", "range_name", "values">>

\* positional binding: the i-th parameter of the signature receives the i-th
\* argument of the call; Bound[p] is the variable of the tool that the
\* parameter p of the engine receives
Bound ==
  [p \in {EngineSignature[i] : i \in 1..Len(ToolPasses)} |->
     ToolPasses[CHOOSE i \in 1..Len(ToolPasses) : EngineSignature[i] = p]]


\* the id of the remote spreadsheet
SpreadsheetId == Id("S1")

\* "if spreadsheet_id is None: spreadsheet_id = current_spreadsheet_id"
ToolSpreadsheetId(c) ==
  IF c.spreadsheet_id = None THEN c.current_spreadsheet_id ELSE c.spreadsheet_id

\* the value of the variable v of the tool when the engine is called
ToolValue(c, v) == IF v = "spreadsheet_id" THEN ToolSpreadsheetId(c) ELSE c[v]

\* what the engine receives as its parameter p
Received(c, p) == ToolValue(c, Bound[p])

\* spreadsheets().get(spreadsheetId=...) answers for the id of the
\* spreadsheet only: anything else handed over as the id (None, a values
\* grid) ends in an error
ToolGetOutcomes(c) ==
  IF Bound["spreadsheet_id"] = "spreadsheet_id" /\ ToolSpreadsheetId(c) = SpreadsheetId
  THEN GetOutcomes ELSE {"raise"}

\* the engine call of the tool, format left at its default None; add_sheet
\* is not reached by update_cells
tool_update_cells(c, sh, getOut, getOut2) ==
  UpdatePrepare(sh, Received(c, "values"), Received(c, "range_name"),
                Received(c, "sheet_name"), FormatNone, getOut, getOut2, "ok", 0)
-----------------------------------------------------------------------------
(* The calls the model issues *)

\* unparse of a single cell: chr(ord('A') + col) followed by str(row)
CellRef(col, row) == <<Chr(65 + col)>> \o Str(row)

CellRefs == {CellRef(col, row) : col \in 0..25, row \in 1..MaxRow}

\* the references used on both sides of "<ref>:<ref>"
RefCols == {0, 1, 3, 25}
RefRows == {1, 2, MaxRow}

TwoRef(c1, r1, c2, r2) == CellRef(c1, r1) \o <<":">> \o CellRef(c2, r2)

TwoRefs == {TwoRef(c1, r1, c2, r2) : c1 \in RefCols, r1 \in RefRows,
                                     c2 \in RefCols, r2 \in RefRows}

\* strings that are not "<A-Z><positive integer>[:<A-Z><positive integer>]"
MalformedRanges ==
  { <<>>, <<"A">>, <<"1">>, <<"A", "A", "1">>, <<"A", "0">>, <<"1", "1">>,
    <<"a", "1">>, <<"A", "+", "1">>, <<"A", " ", "1">>, <<"A", "-", "1">>,
    <<"A", "1", "_", "0">>, <<"A", "1", "x">>, <<" ", "A", "1">>,
    <<"A", "1", ":">>, <<":", "A", "1">>, <<"A", "1", ":", "B">>,
    <<"A", "1", ":", "B", "0">>, <<"A", "1", ":", "B", "B", "2">>,
    <<"A", "1", ":", "B", "2", ":", "C", "3">>, <<"A", "1", ":", "2", "2">>,
    <<"A", ":", "B">> }

RangeStrings == CellRefs \cup TwoRefs \cup MalformedRanges

\* the tags of _parse_html_tags that take no attribute, with the style key
\* and value each stands for
PlainTags ==
  { [name |-> <<"b">>, key |-> "bold"],
    [name |-> <<"s", "t", "r", "o", "n", "g">>, key |-> "bold"],
    [name |-> <<"i">>, key |-> "italic"],
    [name |-> <<"e", "m">>, key |-> "italic"],
    [name |-> <<"s">>, key |-> "strikethrough"],
    [name |-> <<"s", "t", "r", "i", "k", "e">>, key |-> "strikethrough"],
    [name |-> <<"d", "e", "l">>, key |-> "strikethrough"],
    [name |-> <<"u">>, key |-> "underline"],
    [name |-> <<"h", "1">>, key |-> "fontSize"],
    [name |-> <<"h", "2">>, key |-> "fontSize"],
    [name |-> <<"h", "3">>, key |-> "fontSize"],
    [name |-> <<"s", "m", "a", "l", "l">>, key |-> "fontSize"],
    [name |-> <<"c", "e", "n", "t", "e", "r">>, key |-> "horizontalAlignment"],
    [name |-> <<"l", "e", "f", "t">>, key |-> "horizontalAlignment"],
    [name |-> <<"r", "i", "g", "h", "t">>, key |-> "horizontalAlignment"] }

OpenTag(name) == <<"<">> \o name \o <<">">>
CloseTag(name) == <<"<", "/">> \o name \o <<">">>

\* texts without markup
Texts == { <<"H", "i">>, <<"X">>, <<" ", "H", "i", " ">>, <<"a", " ", "b">> }

Wrapped(name, text) == OpenTag(name) \o text \o CloseTag(name)
\* the same with a blank before the '>' of the opening tag
WrappedBlank(name, text) == <<"<">> \o name \o <<" ", ">">> \o text \o CloseTag(name)

\* a channel written as two hexadecimal digits
HexUpper == <<"0", "1", "2", "3", "4", "5", "6", "7", "8", "9",
              "A", "B", "C", "D", "E", "F">>
Hex2(n) == <<HexUpper[(n \div 16) + 1], HexUpper[(n % 16) + 1]>>
Hex6(r, g, b) == Hex2(r) \o Hex2(g) \o Hex2(b)

Channels == {0, 128, 255}

\* the ways a colour value is written in the tag: bare or quoted, with or
\* without '#', upper or lower case
Quotes == { <<>>, <<"'">>, <<"\"">> }
Hashes == { <<>>, <<"#">> }

ColorAttr(quote, hash, digits) ==
  <<" ", "c", "o", "l", "o", "r", "=">> \o quote \o hash \o digits \o quote

ColorTagNames == { <<"f", "o", "n", "t">>, <<"b", "g">> }

ColorWrapped(name, attr, text) ==
  <<"<">> \o name \o attr \o <<">">> \o text \o CloseTag(name)

\* colour values that are not 6 hexadecimal digits
BadColors ==
  { <<"F", "F", "F">>, <<"r", "e", "d">>, <<>>, <<"F", "F", "0", "0", "0", "0", "1">>,
    <<"+", "F", "0", "0", "0", "0">>, <<"-", "1", "0", "0", "0", "0">>,
    <<"G", "G", "0", "0", "0", "0">>, <<"F", "F", "0", "0", "0">> }

\* texts made of up to MaxTokens pieces: opening tags, closing tags and a
\* letter, in any order
MarkupTokens ==
  << <<"<", "b", " ", ">">>, <<"<", "/", "b", ">">>, <<"<", "h", "1", " ", ">">>,
     <<"<", "s", "m", "a", "l", "l", " ", ">">>, <<"<", "/", "h", "1", ">">>, <<"X">> >>

RECURSIVE TokenSeqs(_)
TokenSeqs(n) ==
  IF n = 0 THEN {<<>>}
  ELSE TokenSeqs(n - 1)
       \cup {Append(ts, i) : ts \in {t \in TokenSeqs(n - 1) : Len(t) = n - 1},
                             i \in 1..Len(MarkupTokens)}

RECURSIVE TokenText(_)
TokenText(ts) == IF ts = <<>> THEN <<>> ELSE MarkupTokens[Head(ts)] \o TokenText(Tail(ts))

\* texts that end in a '<' without its '>', after tags or after none
UnterminatedTexts ==
  {p \o u : p \in { <<>>, <<"<", "b", " ", ">", "X">>,
                     <<"<", "h", "1", " ", ">", "a", "<", "/", "h", "1", ">">>,
                     <<"a", ">">>, <<"<", "f", "o", "n", "t", " ", "c", "o", "l", "o", "r",
                                     "=", "#", "F", "F", "F", ">">> },
            u \in { <<"<">>, <<"<", "i">>, <<"<", "b", " ">>, <<"<", " ", "c">> }}

MarkupTexts ==
  Texts
  \cup UnterminatedTexts
  \cup {TokenText(ts) : ts \in TokenSeqs(MaxTokens)}
  \cup {Wrapped(t.name, x) : t \in PlainTags, x \in Texts}
  \cup {WrappedBlank(t.name, x) : t \in PlainTags, x \in Texts}
  \cup {ColorWrapped(n, ColorAttr(q, h, Hex6(r, g, b)), x) :
          n \in ColorTagNames, q \in Quotes, h \in Hashes,
          r \in Channels, g \in Channels, b \in Channels, x \in {<<"X">>, <<" ", "X">>}}
  \cup {ColorWrapped(n, ColorAttr(<<>>, <<>>, Lower(Hex6(r, 0, 255))), <<"X">>) :
          n \in ColorTagNames, r \in Channels}
  \cup {ColorWrapped(n, ColorAttr(<<>>, h, c), <<"X">>) :
          n \in ColorTagNames, h \in Hashes, c \in BadColors}
  \cup {OpenTag(n) \o <<"X">> : n \in ColorTagNames}
  \cup { <<"a", "<", "b">>, <<"a", ">", "b", "<", "c">>, <<"<", ">", "x">>,
         <<"<", "q", ">", "x", "<", "/", "q", ">">> }

\* the arguments of _parse_color: a '#' or none, then 6 hexadecimal digits
\* or something else
ColorStrings ==
  {h \o c : h \in Hashes,
            c \in BadColors \cup {Hex6(r, g, b) : r \in Channels, g \in Channels, b \in Channels}
                 \cup {Lower(Hex6(171, 205, 239)), <<" ", "F", "0", "0", "0", "0">>,
                       <<"#", "F", "F", "0", "0", "0">>}}
SheetNames == {"Sheet1", "Data"}

\* the remote spreadsheet before the call: "Data" exists or not
InitialSheets == { "Sheet1" :> 0, ("Sheet1" :> 0) @@ ("Data" :> 7) }

White == [red |-> Div255(255), green |-> Div255(255), blue |-> Div255(255), alpha |-> 1]

\* format objects of the callers
ItalicFormat == "textFormat" :> ("italic" :> TRUE)
FullFormat == ("textFormat" :> ("bold" :> FALSE)) @@ ("backgroundColor" :> White)
             @@ ("horizontalAlignment" :> <<"L", "E", "F", "T">>)

\* values grids
PlainCell == <<<<StrV(<<"x">>)>>>>
BoldRow == <<<<StrV(<<"<", "b", " ", ">", "x">>), StrV(<<"y">>)>>>>
PlainRow == <<<<StrV(<<"x">>), StrV(<<"y">>)>>>>
WideRow == <<<<StrV(<<"x">>), StrV(<<"y">>), StrV(<<"z">>)>>>>
TwoRows == <<<<StrV(<<>>), IntV(5)>>,
             <<StrV(<<"<", "b", "g", " ", "c", "o", "l", "o", "r", "=", "#",
                      "0", "0", "F", "F", "8", "0", ">", "z">>),
               StrV(<<"<", "u", " ", ">", "w">>)>>>>
BadColorCell == <<<<StrV(<<"<", "f", "o", "n", "t", " ", "c", "o", "l", "o", "r",
                          "=", "#", "F", "F", "F", ">", "x">>)>>>>
Ragged == <<<<StrV(<<"x">>), StrV(<<"y">>)>>, <<StrV(<<"z">>)>>>>

\* the arguments of update_cells
UpdateCellsValues == {PlainCell, BoldRow, PlainRow, WideRow, TwoRows, BadColorCell, Ragged}

UpdateCellsRanges ==
  { <<"A", "1">>, <<"B", "2">>, <<"A", "1", ":", "B", "1">>, <<"A", "1", ":", "C", "1">>,
    <<"B", "2", ":", "C", "3">>, <<"A", "1", ":", "B", "2">>,
    <<>>, <<"A", "A", "1">>, <<"A", "0">>, <<"A", "+", "1">>, <<"1", "1">> }

UpdateCellsFormats ==
  { FormatNone, FormatDict(ItalicFormat), FormatJson(JsonBoldFormat),
    FormatJson(<<"{", "b", "o", "l", "d">>) }

UpdateCellsCalls ==
  [op : {"update_cells"}, values : UpdateCellsValues, range_name : UpdateCellsRanges,
   sheet_name : SheetNames, format : UpdateCellsFormats]

\* the descriptors of batch_update_cells: those the updates lists are made
\* of, and those sent alone
ListDescriptors ==
  { [range |-> RangeStr(<<"A", "1">>), values |-> PlainCell, merge |-> FALSE],
    [range |-> RangeStr(<<"A", "1">>), values |-> PlainCell, merge |-> TRUE],
    [range |-> RangeStr(<<"B", "2", ":", "C", "3">>), values |-> TwoRows,
     merge |-> TRUE, format |-> FullFormat],
    [range |-> RangeDict(RangeInfo(0, 0, 0, 1)), values |-> BoldRow,
     merge |-> FALSE, format |-> ItalicFormat],
    [range |-> RangeDict(RangeInfo(0, 0, 0, 1)), values |-> BoldRow, merge |-> TRUE],
    [range |-> RangeStr(<<"A", "1">>), values |-> PlainCell],
    [range |-> RangeStr(<<"A", "1">>), values |-> WideRow, merge |-> FALSE],
    [values |-> PlainCell, merge |-> TRUE],
    [range |-> RangeStr(<<>>), values |-> PlainCell, merge |-> TRUE],
    [range |-> RangeStr(<<"A", "1">>), values |-> BadColorCell, merge |-> TRUE,
     format |-> ItalicFormat] }

DescriptorRanges ==
  { RangeStr(<<"A", "1">>), RangeStr(<<"A", "1", ":", "B", "1">>),
    RangeStr(<<"B", "2", ":", "C", "3">>), RangeStr(<<"A", "0">>),
    RangeDict(RangeInfo(0, 0, 0, 1)), RangeDict(RangeInfo(1, 2, 1, 2)) }

DescriptorValues == {PlainCell, BoldRow, PlainRow, TwoRows, Ragged}

SingleDescriptors ==
  [range : DescriptorRanges, values : DescriptorValues, merge : BOOLEAN]
  \cup [range : DescriptorRanges, values : DescriptorValues, merge : {TRUE},
         format : {ItalicFormat, FullFormat}]
  \cup { [range |-> RangeStr(<<"A", "1">>), merge |-> TRUE] }

RECURSIVE SeqsUpTo(_, _)
SeqsUpTo(S, n) ==
  IF n = 0 THEN {<<>>}
  ELSE LET shorter == SeqsUpTo(S, n - 1)
       IN  shorter \cup {Append(s, x) : s \in {t \in shorter : Len(t) = n - 1}, x \in S}

BatchCalls ==
  [op : {"batch_update_cells"}, sheet_name : SheetNames,
   updates : SeqsUpTo(ListDescriptors, MaxUpdates)
             \cup {<<d>> : d \in SingleDescriptors}]

\* the calls of the update_cells tool: an id or None, with or without a
\* current spreadsheet
ToolCalls ==
  [op : {"tool_update_cells"}, spreadsheet_id : {None, SpreadsheetId},
   current_spreadsheet_id : {None, SpreadsheetId}, sheet_name : SheetNames,
   range_name : { <<"A", "1">>, <<"A", "1", ":", "C", "1">>, <<"B", "2">> },
   values : {PlainCell, PlainRow, BoldRow}]

\* duplicate_sheet and rename_sheet: a sheet that is there or not, a new
\* title that is free or taken
SheetCalls ==
  [op : {"duplicate_sheet", "rename_sheet"}, sheet_id : SheetIds,
   new_name : {"Copy", "Sheet1"}]

\* the spreadsheets they run on: the sheet with id 0 may be gone
SheetCallSheets == InitialSheets \cup {"Data" :> 7}

\* the format objects a call hands over, one per descriptor
FormatsOf(c) ==
  IF c.op = "batch_update_cells"
  THEN [i \in 1..Len(c.updates) |-> Get(c.updates[i], "format", EmptyDict)]
  ELSE IF c.op = "update_cells"
  THEN <<IF c.format.kind = "dict" THEN c.format.d ELSE None>>
  ELSE <<>>

-----------------------------------------------------------------------------
(* The state machine: one invocation of one operation *)

Init ==
  /\ \/ /\ call \in [op : {"_parse_range"}, range_str : RangeStrings]
           \cup [op : {"_parse_html_tags"}, text : MarkupTexts]
           \cup [op : {"GoogleDocs._parse_color", "GoogleSlides._parse_color"},
                 color : ColorStrings]
        /\ sheets = ("Sheet1" :> 0)
     \/ /\ call \in UpdateCellsCalls \cup BatchCalls \cup {[op |-> "list_sheets"]}
                 \cup ToolCalls
        /\ sheets \in InitialSheets
     \/ /\ call \in SheetCalls
        /\ sheets \in SheetCallSheets
  /\ pc = "called"
  /\ ret = None
  /\ sent = <<>>
  /\ formats = FormatsOf(call)
  /\ answer = "none"
  /\ callers = <<>>

ParseRange ==
  /\ pc = "called"
  /\ call.op = "_parse_range"
  /\ ret' = _parse_range(call.range_str)
  /\ pc' = "returned"
  /\ UNCHANGED <<call, sheets, sent, formats, answer, callers>>

ParseHtmlTags ==
  /\ pc = "called"
  /\ call.op = "_parse_html_tags"
  /\ ret' = _parse_html_tags(call.text)
  /\ pc' = "returned"
  /\ UNCHANGED <<call, sheets, sent, formats, answer, callers>>

\* the handler returns r: its result, and what it did to the service and to
\* the caller's format objects
Returns(r) ==
  /\ ret' = r.ret
  /\ sheets' = r.sheets
  /\ sent' = r.sent
  /\ formats' = r.formats
  /\ answer' = r.answer

\* the prepared call p ends with the batchUpdate of its body, whatever the
\* service answers
Finishes(p) == \E cellsOut \in Outcomes : Returns(BatchFinish(p, cellsOut))

UpdateCells ==
  /\ pc = "called"
  /\ call.op = "update_cells"
  /\ \E getOut \in GetOutcomes, getOut2 \in GetOutcomes,
        add \in AddScenarios(sheets, call.sheet_name) :
       Finishes(UpdatePrepare(sheets, call.values, call.range_name, call.sheet_name,
                              call.format, getOut, getOut2, add.out, add.id))
  /\ pc' = "returned"
  /\ UNCHANGED <<call, callers>>

BatchUpdateCells ==
  /\ pc = "called"
  /\ call.op = "batch_update_cells"
  /\ \E getOut \in GetOutcomes, add \in AddScenarios(sheets, call.sheet_name) :
       Finishes(BatchPrepare(sheets, call.sheet_name, call.updates, getOut,
                             add.out, add.id))
  /\ pc' = "returned"
  /\ UNCHANGED <<call, callers>>

DocsParseColor ==
  /\ pc = "called"
  /\ call.op = "GoogleDocs._parse_color"
  /\ ret' = GoogleDocs_parse_color(call.color)
  /\ pc' = "returned"
  /\ UNCHANGED <<call, sheets, sent, formats, answer, callers>>

SlidesParseColor ==
  /\ pc = "called"
  /\ call.op = "GoogleSlides._parse_color"
  /\ ret' = GoogleSlides_parse_color(call.color)
  /\ pc' = "returned"
  /\ UNCHANGED <<call, sheets, sent, formats, answer, callers>>

ToolUpdateCells ==
  /\ pc = "called"
  /\ call.op = "tool_update_cells"
  /\ \E getOut \in ToolGetOutcomes(call), getOut2 \in GetOutcomes :
       Finishes(tool_update_cells(call, sheets, getOut, getOut2))
  /\ pc' = "returned"
  /\ UNCHANGED <<call, callers>>

DuplicateSheet ==
  /\ pc = "called"
  /\ call.op = "duplicate_sheet"
  /\ \E copyOut \in CopyAnswers(sheets, call.sheet_id), newId \in NewIds(sheets) :
       \E renameOut \in RenameAnswers(AfterCopy(sheets, call.sheet_id, newId),
                                        newId, call.new_name) :
         Returns(duplicate_sheet(sheets, call.sheet_id, call.new_name,
                                 copyOut, newId, renameOut))
  /\ pc' = "returned"
  /\ UNCHANGED <<call, callers>>

RenameSheet ==
  /\ pc = "called"
  /\ call.op = "rename_sheet"
  /\ \E out \in RenameAnswers(sheets, call.sheet_id, call.new_name) :
       LET r == rename_sheet(sheets, call.sheet_id, call.new_name, out)
       IN  ret' = r.ret /\ sheets' = r.sheets /\ sent' = r.sent /\ answer' = out
  /\ pc' = "returned"
  /\ UNCHANGED <<call, formats, callers>>

ListSheets ==
  /\ pc = "called"
  /\ call.op = "list_sheets"
  /\ \E getOut \in GetOutcomes : ret' = list_sheets(sheets, getOut)
  /\ sent' = <<GetCall>>
  /\ pc' = "returned"
  /\ UNCHANGED <<call, sheets, formats, answer, callers>>

Next ==
  \/ ParseRange \/ ParseHtmlTags \/ UpdateCells \/ BatchUpdateCells \/ ListSheets
  \/ DocsParseColor \/ SlidesParseColor \/ ToolUpdateCells
  \/ DuplicateSheet \/ RenameSheet

Spec == Init /\ [][Next]_vars

-----------------------------------------------------------------------------
(* Two batch_update_cells calls at the same time on one spreadsheet *)

Callers == {1, 2}

\* the updates lists of the two callers: one cell, a range that does not
\* parse, nothing
CallerUpdates ==
  { <<[range |-> RangeStr(<<"A", "1">>), values |-> PlainCell, merge |-> FALSE]>>,
    <<[range |-> RangeStr(<<"A", "0">>), values |-> PlainCell, merge |-> TRUE]>>,
    <<>> }

InitInterleaved ==
  /\ callers \in [Callers -> {NewCaller(n, u) : n \in SheetNames, u \in CallerUpdates}]
  /\ sheets \in InitialSheets
  /\ sent = <<>>
  /\ call = [op |-> "interleaved"]
  /\ pc = "called"
  /\ ret = None
  /\ formats = <<>>
  /\ answer = "none"

\* caller p takes the step s: the remote calls of the step are logged with
\* their caller
Takes(p, s) ==
  /\ callers' = [callers EXCEPT ![p] = s.caller]
  /\ sheets' = s.sheets
  /\ sent' = sent \o [i \in 1..Len(s.sent) |-> [caller |-> p, call |-> s.sent[i]]]
  /\ UNCHANGED <<call, pc, ret, formats, answer>>

Resolve(p) ==
  /\ callers[p].pc = "called"
  /\ \E getOut \in GetOutcomes : Takes(p, ResolveStep(callers[p], sheets, getOut))

Create(p) ==
  /\ callers[p].pc = "create"
  /\ \E add \in AddAnswers(sheets, callers[p].sheet_name) :
       Takes(p, CreateStep(callers[p], sheets, add.out, add.id))

Write(p) ==
  /\ callers[p].pc = "build"
  /\ \E cellsOut \in Outcomes : Takes(p, WriteStep(callers[p], sheets, cellsOut))

NextInterleaved == \E p \in Callers : Resolve(p) \/ Create(p) \/ Write(p)

SpecInterleaved == InitInterleaved /\ [][NextInterleaved]_vars

-----------------------------------------------------------------------------
(* One _parse_html_tags call, a pass of its loop at a time *)

InitScan ==
  /\ callers \in {<<[pc |-> "loop", text |-> t, content |-> t, style |-> EmptyDict,
                      ret |-> None]>> : t \in MarkupTexts}
  /\ sheets = ("Sheet1" :> 0)
  /\ sent = <<>>
  /\ call = [op |-> "scan"]
  /\ pc = "called"
  /\ ret = None
  /\ formats = <<>>
  /\ answer = "none"

\* the locals p after a pass: the loop again, or the exception of the pass
AfterPass(p) ==
  /\ callers' = <<[callers[1] EXCEPT
                     !.pc = IF p.raised # "" THEN "returned" ELSE "loop",
                     !.ret = IF p.raised # "" THEN Raise(p.raised) ELSE None,
                     !.content = p.content, !.style = p.style]>>
  /\ UNCHANGED <<call, pc, ret, sheets, sent, formats, answer>>

ScanTag ==
  /\ callers[1].pc = "loop"
  /\ LoopRuns(callers[1].content)
  /\ AfterPass(Pass(callers[1].content, callers[1].style))

\* the loop is left and the result returned
ScanEnd ==
  /\ callers[1].pc = "loop"
  /\ ~LoopRuns(callers[1].content)
  /\ callers' = <<[callers[1] EXCEPT
                     !.pc = "returned",
                     !.ret = Cleaned(Ok([content |-> callers[1].content,
                                         style |-> callers[1].style]))]>>
  /\ UNCHANGED <<call, pc, ret, sheets, sent, formats, answer>>

NextScan == ScanTag \/ ScanEnd

SpecScan == InitScan /\ [][NextScan]_vars
-----------------------------------------------------------------------------
(* Properties *)

\* the operation op has returned
Returned(op) == pc = "returned" /\ call.op = op

\* the bodies of the batchUpdate calls that carry cell requests
CellBodies ==
  {k \in 1..Len(sent) : /\ sent[k].api = "batchUpdate"
                        /\ "addSheet" \notin DOMAIN sent[k].requests[1]}

NoBatchUpdate == \A k \in 1..Len(sent) : sent[k].api # "batchUpdate"

\* the font sizes the heading tags stand for
SizeOfTag(name) ==
  IF name = <<"h", "1">> THEN 24
  ELSE IF name = <<"h", "2">> THEN 20
  ELSE IF name = <<"h", "3">> THEN 16 ELSE 10

\* style holds the attribute the plain tag t stands for
HasAttribute(style, t) ==
  /\ style # None
  /\ t.key \in DOMAIN style
  /\ IF t.key = "fontSize" THEN style[t.key] = SizeOfTag(t.name)
     ELSE IF t.key = "horizontalAlignment" THEN style[t.key] = Upper(t.name)
     ELSE style[t.key] = TRUE

TrimmedTexts == {x \in Texts : x # <<>> /\ x[1] # " " /\ x[Len(x)] # " "}

\* C1: for every recognized attribute-less tag wrapped around a text,
\* _parse_html_tags returns the text without the tags and a style holding the
\* attribute of the tag ("<b>Hi</b>" gives text "Hi" and style {bold: true}).
C1_PlainTagGivesStyle ==
  Returned("_parse_html_tags") =>
    \A t \in PlainTags, x \in TrimmedTexts :
      call.text = Wrapped(t.name, x) =>
        /\ ret.exc = ""
        /\ ret.val.text = x
        /\ HasAttribute(ret.val.style, t)

ColorStyleKey(name) ==
  IF name = <<"f", "o", "n", "t">> THEN "foregroundColor" ELSE "backgroundColor"

C3_SingleCell ==
  Returned("_parse_range") =>
    \A col \in 0..25, row \in 1..MaxRow :
      call.range_str = <<Chr(65 + col)>> \o Str(row) =>
        /\ ret.exc = ""
        /\ ret.val.startRowIndex = row - 1
        /\ ret.val.startColumnIndex = col
        /\ ret.val.endRowIndex = ret.val.startRowIndex + 1
        /\ ret.val.endColumnIndex = ret.val.startColumnIndex + 1

\* "A1" was parsed to {0, 1, 0, 1}
C3_Witness ==
  /\ Returned("_parse_range")
  /\ call.range_str = <<"A", "1">>
  /\ ret.exc = ""
  /\ ret.val = RangeInfo(0, 1, 0, 1)

SingleCellSpecs ==
  {RangeInfo(sr, sr + 1, sc, sc + 1) : sr \in 0..(MaxRow - 1), sc \in 0..25}

Unparse(spec) == <<Chr(Ord("A") + spec.startColumnIndex)>> \o Str(spec.startRowIndex + 1)

\* C5: parsing the re-encoding of a single-cell RangeSpec returns that
\* RangeSpec.
C5_RoundTrip ==
  Returned("_parse_range") =>
    \A spec \in SingleCellSpecs :
      call.range_str = Unparse(spec) => ret.exc = "" /\ ret.val = spec

\* the re-encoding "Z12" of {11, 12, 25, 26} was parsed back
C5_Witness ==
  /\ Returned("_parse_range")
  /\ call.range_str = Unparse(RangeInfo(11, 12, 25, 26))
  /\ call.range_str = <<"Z", "1", "2">>
  /\ ret.exc = ""
  /\ ret.val = RangeInfo(11, 12, 25, 26)

ListedMalformed ==
  { <<>>, <<"A">>, <<"A", "A", "1">>, <<"1", "1">>, <<"A", "0">>,
    <<"A", "1", ":">>, <<"A", "1", ":", "B">>, <<"A", "1", ":", "B", "0">>,
    <<"A", "1", ":", "B", "B", "2">>, <<"A", "1", ":", "2", "2">> }

\* C7: every malformed range string makes _parse_range fail, and update_cells
\* and batch_update_cells then return success = False.
C7_MalformedRangeFails ==
  /\ (Returned("_parse_range") /\ call.range_str \in ListedMalformed) => ret.exc # ""
  /\ (Returned("update_cells") /\ call.range_name \in ListedMalformed)
       => ret.success = FALSE
  /\ Returned("batch_update_cells") =>
       \A i \in 1..Len(call.updates) :
         ( /\ "range" \in DOMAIN call.updates[i]
           /\ "values" \in DOMAIN call.updates[i]
           /\ call.updates[i].range.isStr
           /\ call.updates[i].range.s \in ListedMalformed ) => ret.success = FALSE

\* the column count the values must have: endColumnIndex - startColumnIndex
ExpectedCols(range_info) == range_info.endColumnIndex - range_info.startColumnIndex

\* some row of values has a column count other than n
SomeRowNot(values, n) == \E i \in 1..Len(values) : Len(values[i]) # n

\* C8: if a row of values has a column count different from endColumnIndex -
\* startColumnIndex of the parsed range, update_cells returns success = False
\* and has issued no batchUpdate (no cell operation, no sheet creation).
C8_MismatchFailsFast ==
  Returned("update_cells") =>
    LET range_info == _parse_range(call.range_name)
    IN  (range_info.exc = "" /\ SomeRowNot(call.values, ExpectedCols(range_info.val)))
          => ret.success = FALSE /\ NoBatchUpdate

\* update_cells rejected a 3-column row for "A1" with the dimension error
C8_Witness ==
  /\ Returned("update_cells")
  /\ call.range_name = <<"A", "1">>
  /\ call.values = WideRow
  /\ ret.success = FALSE
  /\ ret.error = "Data dimensions do not match range"
  /\ ret.expected = 1 /\ ret.got = 3
  /\ sent = <<GetCall>>

\* the descriptors batch_update_cells builds requests for
Processed(update) == "range" \in DOMAIN update /\ "values" \in DOMAIN update

\* the range of a processed descriptor, as [exc, val]
RangeOf(update) ==
  IF update.range.isStr THEN _parse_range(update.range.s) ELSE Ok(update.range.d)

\* C9: in batch_update_cells the column count is checked for every descriptor
\* before anything is sent: if a row of some descriptor has a column count
\* different from that descriptor's endCol - startCol, the call fails and no
\* cell operation is sent.
C9_BatchChecksColumns ==
  ( /\ Returned("batch_update_cells")
    /\ \E i \in 1..Len(call.updates) :
         /\ Processed(call.updates[i])
         /\ RangeOf(call.updates[i]).exc = ""
         /\ SomeRowNot(call.updates[i].values,
                       ExpectedCols(RangeOf(call.updates[i]).val)) )
    => ret.success = FALSE /\ CellBodies = {}

\* the number of requests the descriptors before the i-th put in the body
RECURSIVE RequestsBefore(_, _)
RequestsBefore(ds, i) ==
  IF i = 1 THEN 0
  ELSE RequestsBefore(ds, i - 1)
       + (IF Get(ds[i - 1], "merge", FALSE) THEN 2 ELSE 1)

\* C10: for every descriptor with merge set the request list holds exactly one
\* mergeCells request of that descriptor's range, strictly after (never
\* before) the updateCells request carrying the cells of that descriptor, for
\* any number and order of descriptors.
C10_MergeAfterCells ==
  Returned("batch_update_cells") =>
    \A k \in CellBodies :
      LET R == sent[k].requests
          ds == SelectSeq(call.updates, Processed)
          merging == {i \in 1..Len(ds) : Get(ds[i], "merge", FALSE)}
          merges == {j \in 1..Len(R) : "mergeCells" \in DOMAIN R[j]}
          cells(i) == RequestsBefore(ds, i) + 1
      IN  /\ Cardinality(merges) = Cardinality(merging)
          /\ Len(R) = Len(ds) + Cardinality(merging)
          /\ \A i \in 1..Len(ds) :
               /\ "updateCells" \in DOMAIN R[cells(i)]
               /\ Len(R[cells(i)].updateCells.rows) = Len(ds[i].values)
               /\ \A n \in 1..Len(ds[i].values) :
                    Len(R[cells(i)].updateCells.rows[n].values) = Len(ds[i].values[n])
               /\ R[cells(i)].updateCells.range
                    = SentRange(sheets[call.sheet_name], RangeOf(ds[i]).val)
               /\ i \in merging =>
                    /\ "mergeCells" \in DOMAIN R[cells(i) + 1]
                    /\ R[cells(i) + 1].mergeCells.range = R[cells(i)].updateCells.range
          /\ \A j \in merges :
               /\ j > 1
               /\ "updateCells" \in DOMAIN R[j - 1]
               /\ R[j - 1].updateCells.range = R[j].mergeCells.range

\* a body was sent for a list of two descriptors of which only the second
\* merges: updateCells, updateCells, mergeCells
C10_Witness ==
  /\ Returned("batch_update_cells")
  /\ Len(call.updates) = 2
  /\ ~Get(call.updates[1], "merge", FALSE)
  /\ Get(call.updates[2], "merge", FALSE)
  /\ \E k \in CellBodies :
       /\ Len(sent[k].requests) = 3
       /\ "updateCells" \in DOMAIN sent[k].requests[2]
       /\ "mergeCells" \in DOMAIN sent[k].requests[3]

\* the request index of the updateCells request of the i-th processed descriptor
CellsAt(ds, i) == RequestsBefore(ds, i) + 1

\* the style vocabulary
Vocabulary == TextKeys \cup {"backgroundColor", "horizontalAlignment"}

\* the attributes of a format object, those of its textFormat included
Flat(fmt) ==
  IF ~Truthy(fmt) THEN EmptyDict
  ELSE (IF "textFormat" \in DOMAIN fmt THEN Restrict(fmt["textFormat"], TextKeys)
        ELSE EmptyDict)
       @@ Restrict(fmt, {"backgroundColor", "horizontalAlignment"})

\* the style the markup of a value stands for ({} when it has none)
MarkupStyle(value) ==
  LET parsed == _parse_html_tags(StrOf(value))
  IN  IF parsed.exc # "" \/ parsed.val.style = None THEN EmptyDict
      ELSE parsed.val.style

IsEmptyString(value) == value.t = "str" /\ value.s = <<>>

\* the emitted format is the key-by-key merge of the caller's format with
\* the markup style, the markup winning
MergedKeyByKey(emitted, format, style) ==
  \A key \in Vocabulary :
    /\ key \in DOMAIN style =>
         key \in DOMAIN emitted /\ emitted[key] = style[key]
    /\ (key \notin DOMAIN style /\ key \in DOMAIN format) =>
         key \in DOMAIN emitted /\ emitted[key] = format[key]

\* C11: for every non-empty cell the format batch_update_cells emits is the
\* key-by-key merge of the descriptor's format with the markup style: the
\* markup value wins for a key of both, and a key of only one of them
\* (horizontalAlignment given by the caller included) is emitted with the
\* value that source gives it.
C11_FormatMergedKeyByKey ==
  Returned("batch_update_cells") =>
    \A k \in CellBodies :
      LET R == sent[k].requests
          ds == SelectSeq(call.updates, Processed)
      IN  \A i \in 1..Len(ds) :
            \A n \in 1..Len(ds[i].values) :
              \A m \in 1..Len(ds[i].values[n]) :
                ~IsEmptyString(ds[i].values[n][m]) =>
                  LET cell == R[CellsAt(ds, i)].updateCells.rows[n].values[m]
                  IN  /\ "userEnteredFormat" \in DOMAIN cell
                      /\ MergedKeyByKey(Flat(cell["userEnteredFormat"]),
                                        Flat(Get(ds[i], "format", EmptyDict)),
                                        MarkupStyle(ds[i].values[n][m]))

AddSheetCalls ==
  {k \in 1..Len(sent) : /\ sent[k].api = "batchUpdate"
                        /\ "addSheet" \in DOMAIN sent[k].requests[1]}

\* the range of a request of a cell body
RequestRange(request) ==
  IF "updateCells" \in DOMAIN request THEN request.updateCells.range
  ELSE request.mergeCells.range

\* C13: batch_update_cells resolves the sheet before it writes: a cell batch is
\* sent only after sheet_name was found in the spreadsheet or created by a
\* successful addSheet, every updateCells and mergeCells request of the batch
\* carries the resolved sheetId, and when the creation fails the call returns
\* the failure and sends no cell batch.
C13_SheetResolvedFirst ==
  Returned("batch_update_cells") =>
    /\ \A k \in CellBodies :
         /\ \E g \in 1..(k - 1) : sent[g] = GetCall
         /\ \A a \in AddSheetCalls : a < k
         /\ call.sheet_name \in DOMAIN sheets
         /\ \A j \in 1..Len(sent[k].requests) :
              RequestRange(sent[k].requests[j]).sheetId = sheets[call.sheet_name]
    /\ (AddSheetCalls # {} /\ call.sheet_name \notin DOMAIN sheets) =>
         ret.success = FALSE /\ CellBodies = {}

\* the sheet "Data" was missing and created with id 9, then a batch with an
\* updateCells and a mergeCells request was sent with sheetId 9
C13_Witness ==
  /\ Returned("batch_update_cells")
  /\ call.sheet_name = "Data"
  /\ AddSheetCalls = {2}
  /\ "Data" \in DOMAIN sheets
  /\ sheets["Data"] = 9
  /\ 3 \in CellBodies
  /\ Len(sent[3].requests) = 2
  /\ sent[3].requests[1].updateCells.range.sheetId = 9
  /\ sent[3].requests[2].mergeCells.range.sheetId = 9

\* C14: update_cells resolves or creates like the builder: called with a sheet
\* name the spreadsheet does not have, it creates the sheet and then writes.
\* Hence a call that returns with the sheet still missing has looked it up in
\* vain (the lookup raised) or has tried to create it.
C14_UpdateCellsCreatesSheet ==
  (Returned("update_cells") /\ call.sheet_name \notin DOMAIN sheets) =>
    \/ AddSheetCalls # {}
    \/ ret.success = FALSE /\ ret.error = "HttpError"

\* C14 amended: update_cells never creates a sheet; called with a sheet name
\* the spreadsheet does not have, it returns success = False with the error
\* "Sheet not found" (or the error of the lookup) and sends nothing after
\* spreadsheets().get: no addSheet and no cell batch.
C14_UpdateCellsNeverCreates ==
  Returned("update_cells") =>
    /\ AddSheetCalls = {}
    /\ call.sheet_name \notin DOMAIN sheets =>
         /\ ret.success = FALSE
         /\ ret.error \in {"Sheet not found", "HttpError"}
         /\ sent = <<GetCall>>

\* update_cells was called for the missing sheet "Data" with arguments that are
\* written when the sheet exists, and returned "Sheet not found"
C14_Witness ==
  /\ Returned("update_cells")
  /\ call.sheet_name = "Data"
  /\ call.range_name = <<"A", "1">>
  /\ call.values = PlainCell
  /\ "Data" \notin DOMAIN sheets
  /\ ret = Fail("Sheet not found")
  /\ sent = <<GetCall>>

WritesCells == Returned("update_cells") \/ Returned("batch_update_cells")

BatchUpdateCalls == {k \in 1..Len(sent) : sent[k].api = "batchUpdate"}

\* the descriptors of a batch_update_cells call whose sheet is resolved build
\* a request list that is not empty
BuildsRequests ==
  /\ call.sheet_name \in DOMAIN sheets
  /\ LET built == Build(call.updates, sheets[call.sheet_name])
     IN  built.exc = "" /\ built.requests # <<>>

\* C15: a call of update_cells or batch_update_cells that builds a non-empty
\* operation sequence issues exactly one spreadsheets().batchUpdate before it
\* returns, also when the sheet had to be created, and never a second one.
C15_ExactlyOneBatchUpdate ==
  WritesCells =>
    /\ CellBodies # {} => Cardinality(BatchUpdateCalls) = 1
    /\ ret.success = TRUE => Cardinality(BatchUpdateCalls) = 1

\* C15 amended: such a call sends exactly one cell batch, as the last call
\* before it returns, and never a second one, whatever the service answers;
\* when the sheet had to be created, one separate addSheet batchUpdate
\* precedes the cell batch.
C15_OneCellBatch ==
  WritesCells =>
    /\ Cardinality(CellBodies) <= 1
    /\ Cardinality(AddSheetCalls) <= 1
    /\ \A k \in CellBodies : k = Len(sent) /\ \A a \in AddSheetCalls : a = k - 1
    /\ ret.success = TRUE => Cardinality(CellBodies) = 1
    /\ ( /\ Returned("batch_update_cells")
         /\ BuildsRequests
         /\ ~(sent = <<GetCall>> /\ ret = Fail("HttpError")) )
         => Cardinality(CellBodies) = 1

\* the sheet was created by one addSheet call, then the cell batch was sent
\* once and the service did not acknowledge it: no second cell batch
C15_Witness ==
  /\ Returned("batch_update_cells")
  /\ Len(sent) = 3
  /\ AddSheetCalls = {2}
  /\ CellBodies = {3}
  /\ ret = Fail("Failed to batch update cells")

\* the public operations of GoogleSheets
PublicOperations == {"list_sheets", "update_cells", "batch_update_cells"}

\* r is a result: a success flag with a payload or an error description
IsResult(r) ==
  /\ "success" \in DOMAIN r
  /\ IF r.success THEN "result" \in DOMAIN r ELSE "error" \in DOMAIN r

\* C16: every public operation of GoogleSheets returns a result with a success
\* flag plus a payload or an error description, and no exception raised by
\* the remote service or by a parser escapes from it.
C16_PublicOperationsReturnResults ==
  (pc = "returned" /\ call.op \in PublicOperations) => IsResult(ret)


-----------------------------------------------------------------------------
(* C17 *)

\* the failure results of a cell batchUpdate that raised or was not
\* acknowledged
RemoteFailures == {Fail("HttpError"), Fail("Failed to batch update cells")}

\* C17: when the cell batchUpdate of update_cells or batch_update_cells
\* raises or answers without replies, the call returns one failure result,
\* success False with the error of the remote call and no 'result' field;
\* success True is returned only for an acknowledged batch.
C17_UnacknowledgedBatchFails ==
  WritesCells =>
    /\ answer \in {"raise", "noreplies"} => ret \in RemoteFailures
    /\ ret.success => answer = "ok"

C17_Witness ==
  /\ pc = "returned"
  /\ call.op = "update_cells"
  /\ answer = "noreplies"
  /\ Len(sent) = 3
  /\ ret = Fail("Failed to batch update cells")

-----------------------------------------------------------------------------
(* C18 *)

\* update_cells was called with a str format
StrFormat == Returned("update_cells") /\ call.format.kind = "str"

\* the call was stopped before its format was looked at: the spreadsheet was
\* not read, the sheet is missing, the range does not parse or a row does not
\* fit it
StoppedBeforeFormat ==
  \/ ret = Fail("HttpError")
  \/ call.sheet_name \notin DOMAIN sheets
  \/ LET range_info == _parse_range(call.range_name)
     IN  range_info.exc # "" \/ SomeRowNot(call.values, ExpectedCols(range_info.val))

\* C18: update_cells takes a format given as a JSON str.  When the text is
\* valid JSON, every non-empty cell of a body the call sends carries the
\* decoded object as its format (merged with the cell's markup style).  When
\* it is not, the call returns success False and sends no cell operation; the
\* error is 'Invalid format parameter' unless an earlier step of the call
\* (reading the spreadsheet, finding the sheet, parsing the range, the
\* dimension check) already failed.
C18_JsonFormatDecoded ==
  StrFormat =>
    LET decoded == JsonLoads(call.format.s)
    IN  IF decoded.exc # ""
        THEN /\ ret.success = FALSE
             /\ CellBodies = {}
             /\ ~StoppedBeforeFormat => ret = Fail("Invalid format parameter")
        ELSE \A k \in CellBodies :
               \A n \in 1..Len(call.values) :
                 \A m \in 1..Len(call.values[n]) :
                   ~IsEmptyString(call.values[n][m]) =>
                     LET cell == sent[k].requests[1].updateCells.rows[n].values[m]
                     IN  /\ "userEnteredFormat" \in DOMAIN cell
                         /\ MergedKeyByKey(Flat(cell["userEnteredFormat"]),
                                           Flat(decoded.val),
                                           MarkupStyle(call.values[n][m]))

\* a two-row grid written with the JSON bold format, and acknowledged
C18_Witness ==
  /\ StrFormat
  /\ call.format.s = JsonBoldFormat
  /\ call.values = TwoRows
  /\ ret.success
  /\ sent[3].requests[1].updateCells.rows[2].values[2]["userEnteredFormat"]["textFormat"]
       = ("bold" :> TRUE) @@ ("underline" :> TRUE)

\* an otherwise valid call with a format that is not JSON
C18_WitnessInvalid ==
  /\ StrFormat
  /\ JsonLoads(call.format.s).exc = "JSONDecodeError"
  /\ ~StoppedBeforeFormat
  /\ ret = Fail("Invalid format parameter")
  /\ sent = <<GetCall>>

-----------------------------------------------------------------------------
(* C19 *)

HexChars == {HexUpper[i] : i \in 1..16} \cup {Lower(HexUpper)[i] : i \in 1..16}

\* v is 6 hexadecimal digits, after a '#' or not
SixHexDigits(v) ==
  LET digits == IF v # <<>> /\ v[1] = "#" THEN Tail(v) ELSE v
  IN  Len(digits) = 6 /\ \A i \in 1..6 : digits[i] \in HexChars

\* the channels of a colour are quotients n/255 in [0, 1]
UnitChannels(color) ==
  \A ch \in {"red", "green", "blue"} : color[ch].num \in 0..color[ch].den

\* the colour values the markup texts of the model carry without quotes
MarkupColors ==
  BadColors \cup {Hex6(r, g, b) : r \in Channels, g \in Channels, b \in Channels}
  \cup {Lower(Hex6(r, 0, 255)) : r \in Channels}

\* C19: a colour string is accepted exactly when it is 6 hexadecimal digits
\* after an optional '#': every other string (shorter, longer, or with a
\* character that is no hexadecimal digit, a sign included) makes the call
\* raise, in the font/bg colour attribute of _parse_html_tags and in
\* _parse_color of GoogleDocs and GoogleSlides; an accepted colour has its
\* channels in [0, 1].
C19_OnlySixHexDigitsAccepted ==
  /\ (pc = "returned"
      /\ call.op \in {"GoogleDocs._parse_color", "GoogleSlides._parse_color"}) =>
       /\ ret.exc = "" <=> SixHexDigits(call.color)
       /\ ret.exc = "" => UnitChannels(ret.val)
  /\ Returned("_parse_html_tags") =>
       \A name \in ColorTagNames, h \in Hashes, c \in MarkupColors :
         call.text = ColorWrapped(name, ColorAttr(<<>>, h, c), <<"X">>) =>
           /\ ret.exc = "" <=> SixHexDigits(h \o c)
           /\ ret.exc = "" => UnitChannels(ret.val.style[ColorStyleKey(name)])

\* the states that refute C19: a 7-digit colour accepted by the markup
\* parser, and a signed 6-character colour accepted by _parse_color with a
\* negative channel
C19_LongColorAccepted ==
  /\ Returned("_parse_html_tags")
  /\ call.text = ColorWrapped(<<"f", "o", "n", "t">>,
                              ColorAttr(<<>>, <<"#">>, <<"F", "F", "0", "0", "0", "0", "1">>),
                              <<"X">>)
  /\ ret = Ok([text |-> <<"X">>,
               style |-> "foregroundColor" :>
                           [red |-> Div255(255), green |-> Div255(0),
                            blue |-> Div255(0), alpha |-> 1]])

C19_SignedColorAccepted ==
  /\ pc = "returned"
  /\ call.op = "GoogleDocs._parse_color"
  /\ call.color = <<"-", "1", "0", "0", "0", "0">>
  /\ ret = Ok([red |-> Div255(0 - 1), green |-> Div255(0), blue |-> Div255(0)])

-----------------------------------------------------------------------------
(* C20 *)

\* the errors _parse_html_tags raises for the cells of a row
RowParseErrors(row) ==
  {_parse_html_tags(StrOf(row[m])).exc :
     m \in {j \in 1..Len(row) : ~IsEmptyString(row[j])}} \ {""}

\* the errors of the range string and of the cell markup of a descriptor
\* that _parse_range and _parse_html_tags raise for them
ParseErrors(update) ==
  (IF RangeOf(update).exc # "" THEN {RangeOf(update).exc} ELSE {})
  \cup UNION {RowParseErrors(update.values[n]) : n \in 1..Len(update.values)}

\* the errors of all the descriptors of the call that have range and values
CallParseErrors ==
  UNION {ParseErrors(call.updates[i]) :
           i \in {j \in 1..Len(call.updates) : Processed(call.updates[j])}}

\* the builder was not reached: the spreadsheet was not read, or the sheet
\* is missing and was not created
StoppedBeforeBuild ==
  ret = Fail("HttpError") \/ call.sheet_name \notin DOMAIN sheets

\* C20: when the range string or the colour attribute of a cell of some
\* descriptor of batch_update_cells does not parse, the call returns
\* success False and sends no cell operation, not even for the descriptors
\* before it; the error it carries is that of a failing parse, unless the
\* call stopped before building (spreadsheet not read, sheet not created).
C20_ParserErrorsNotRecovered ==
  (Returned("batch_update_cells") /\ CallParseErrors # {}) =>
    /\ ret.success = FALSE
    /\ CellBodies = {}
    /\ ~StoppedBeforeBuild => ret.error \in CallParseErrors

\* a valid descriptor followed by one whose cell has a 3-digit colour:
\* nothing was sent for either
C20_Witness ==
  /\ Returned("batch_update_cells")
  /\ Len(call.updates) = 2
  /\ Processed(call.updates[1])
  /\ ParseErrors(call.updates[1]) = {}
  /\ Processed(call.updates[2])
  /\ call.updates[2].values = BadColorCell
  /\ ParseErrors(call.updates[2]) = {"ValueError"}
  /\ ret = Fail("ValueError")
  /\ sent = <<GetCall>>

-----------------------------------------------------------------------------
(* C21 *)

\* the positions in the log of the remote calls of caller p
CallsBy(p) == {k \in 1..Len(sent) : sent[k].caller = p}

\* those that are an addSheet for the sheet name of p
AddSheetsBy(p) ==
  {k \in CallsBy(p) :
     sent[k].call = BatchUpdateCall(<<AddSheetRequest(callers[p].sheet_name)>>)}

\* C21: every batch_update_cells call resolves the sheet anew from the
\* remote spreadsheet (its first remote call is spreadsheets().get), and
\* nothing arbitrates creation: a call that saw its sheet name absent issues
\* an addSheet for it whatever another call has done in between, so two
\* interleaved calls for the same missing name can both see it absent and
\* both issue addSheet (C21_Witness).
C21_NoArbitration ==
  \A p \in Callers :
    /\ callers[p].pc # "called" =>
         \E k \in CallsBy(p) : /\ sent[k].call = GetCall
                               /\ \A j \in CallsBy(p) : k <= j
    /\ (callers[p].seen = "absent" /\ callers[p].pc # "create") => AddSheetsBy(p) # {}
    /\ callers[p].seen # "absent" => AddSheetsBy(p) = {}

\* both callers saw "Data" absent and both issued an addSheet for it
C21_Witness ==
  /\ \A p \in Callers : /\ callers[p].sheet_name = "Data"
                        /\ callers[p].seen = "absent"
                        /\ AddSheetsBy(p) # {}
  /\ Len(sent) >= 4

-----------------------------------------------------------------------------
(* C22 *)

\* C22: the update_cells tool of main.py hands each of its arguments to the
\* parameter of the same meaning of GoogleSheets.update_cells: the engine
\* receives spreadsheet_id as spreadsheet_id, sheet_name as sheet_name,
\* range_name as range_name and values as values.
C22_ToolPassesArguments ==
  Returned("tool_update_cells") =>
    \A p \in {"spreadsheet_id", "sheet_name", "range_name", "values"} : Bound[p] = p

\* what the tool does instead: the engine takes the values grid for the
\* spreadsheet id, spreadsheets().get fails, and the call returns a failure
\* having written nothing
C22_ToolWritesNothing ==
  Returned("tool_update_cells") =>
    /\ ret = Fail("HttpError")
    /\ sent = <<GetCall>>

\* a tool call that names an existing sheet, a range and a grid that fits it
C22_ValidCallFails ==
  /\ Returned("tool_update_cells")
  /\ call.spreadsheet_id = SpreadsheetId
  /\ call.sheet_name = "Sheet1"
  /\ call.range_name = <<"A", "1">>
  /\ call.values = PlainCell
  /\ Bound["values"] = "spreadsheet_id"
  /\ Bound["spreadsheet_id"] = "values"
  /\ ret.success = FALSE

-----------------------------------------------------------------------------
(* C23 *)

\* what each piece of MarkupTokens sets: the opening tags their attribute,
\* the closing tags and the letter nothing
TokenSets ==
  << "bold" :> TRUE, EmptyDict, "fontSize" :> 24, "fontSize" :> 10, EmptyDict, EmptyDict >>

\* the style of the opening tags of ts, taken in order: a later tag
\* overwrites the attribute of an earlier one
RECURSIVE OpeningsStyle(_, _)
OpeningsStyle(ts, style) ==
  IF ts = <<>> THEN style
  ELSE OpeningsStyle(Tail(ts), TokenSets[Head(ts)] @@ style)

\* the letters of ts, the tags left out
RECURSIVE LettersOf(_)
LettersOf(ts) ==
  IF ts = <<>> THEN <<>>
  ELSE (IF MarkupTokens[Head(ts)][1] = "<" THEN <<>> ELSE MarkupTokens[Head(ts)])
       \o LettersOf(Tail(ts))

\* C23: _parse_html_tags is flat: closing tags are removed from the text and
\* change nothing in the style, so the style is the one the opening tags set
\* in their order (a later tag overwrites the attribute of an earlier one, a
\* closing tag takes nothing back), wherever the closing tags stand.
C23_ClosingTagsHaveNoEffect ==
  Returned("_parse_html_tags") =>
    \A ts \in TokenSeqs(MaxTokens) :
      call.text = TokenText(ts) =>
        /\ ret.exc = ""
        /\ ret.val.text = LettersOf(ts)
        /\ ret.val.style = IF DOMAIN OpeningsStyle(ts, EmptyDict) = {} THEN None
                           ELSE OpeningsStyle(ts, EmptyDict)

\* "<b >X</b>": the closing tag is gone from the text and bold is still set
C23_Witness ==
  /\ Returned("_parse_html_tags")
  /\ call.text = <<"<", "b", " ", ">", "X", "<", "/", "b", ">">>
  /\ ret = Ok([text |-> <<"X">>, style |-> "bold" :> TRUE])

-----------------------------------------------------------------------------
(* C24 *)

\* s has no '<' with a '>' after it
NoTagPair(s) == ~\E i \in 1..Len(s), j \in 1..Len(s) : i < j /\ s[i] = "<" /\ s[j] = ">"

\* C24: for a string without a '<'...'>' pair, leading or trailing
\* whitespace included, _parse_html_tags returns style None and the text
\* exactly as it was given.
C24_NoTagTextUnchanged ==
  (Returned("_parse_html_tags") /\ NoTagPair(call.text)) =>
    ret = Ok([text |-> call.text, style |-> None])

\* what the code returns for such a string: the text without its leading
\* and trailing whitespace
C24_NoTagTextStripped ==
  (Returned("_parse_html_tags") /\ NoTagPair(call.text)) =>
    ret = Ok([text |-> Strip(call.text), style |-> None])

\* " Hi " comes back as "Hi"
C24_WhitespaceLost ==
  /\ Returned("_parse_html_tags")
  /\ call.text = <<" ", "H", "i", " ">>
  /\ ret = Ok([text |-> <<"H", "i">>, style |-> None])

-----------------------------------------------------------------------------
(* C25 *)

\* the step-by-step call has returned
Scanned == callers[1].pc = "returned"

\* the step-by-step call returns what _parse_html_tags returns
ScanIsParse == Scanned => callers[1].ret = _parse_html_tags(callers[1].text)

\* t has a '<' with no '>' after it
Unterminated(t) == \E i \in 1..Len(t) : t[i] = "<" /\ \A j \in i..Len(t) : t[j] # ">"

\* the position of the first such '<'
FirstUnterminated(t) ==
  CHOOSE i \in 1..Len(t) :
    /\ t[i] = "<" /\ \A j \in i..Len(t) : t[j] # ">"
    /\ \A k \in 1..(i - 1) : ~(t[k] = "<" /\ \A j \in k..Len(t) : t[j] # ">")

\* the text before the unterminated '<', and the text from it on
BeforeUnterminated(t) == SubSeq(t, 1, FirstUnterminated(t) - 1)
FromUnterminated(t) == SubSeq(t, FirstUnterminated(t), Len(t))

\* t has an unterminated '<', and the tags before it raise nothing
EndsUnterminated(t) ==
  Unterminated(t) /\ _parse_html_tags(BeforeUnterminated(t)).exc = ""

\* the last n characters of s
Suffix(s, n) == SubSeq(s, Len(s) - n + 1, Len(s))

\* the call returned normally with the unterminated '<' and what follows it
\* at the end of its text, as given, and with the style of the tags before
UnterminatedLeftAsIs(c) ==
  /\ c.ret.exc = ""
  /\ c.ret.val.style = _parse_html_tags(BeforeUnterminated(c.text)).val.style
  /\ Len(c.ret.val.text) >= Len(FromUnterminated(c.text))
  /\ Suffix(c.ret.val.text, Len(FromUnterminated(c.text))) = FromUnterminated(c.text)

\* every pass of the loop makes content shorter, so that a call takes at
\* most Len(text) passes before it returns or raises
C25_PassShortens ==
  [][(callers[1].pc = "loop" /\ LoopRuns(callers[1].content))
       => Len(callers'[1].content) < Len(callers[1].content)]_vars

\* C25: _parse_html_tags terminates on every input (every pass of its loop
\* shortens the content it scans), and at a '<' that has no '>' after it
\* the scan stops without an error: the '<' and everything after it stay in
\* the returned text, and the style of the tags before it is kept (for tags
\* that do not themselves raise).
C25_UnterminatedStopsScan ==
  /\ C25_PassShortens
  /\ []((Scanned /\ EndsUnterminated(callers[1].text))
          => UnterminatedLeftAsIs(callers[1]))

\* what holds at an unterminated '<': no error, the style of the tags before
\* it, and the text from the '<' on up to the whitespace stripped at the end
C25_UnterminatedKeptStripped ==
  (Scanned /\ EndsUnterminated(callers[1].text)) =>
    /\ callers[1].ret.exc = ""
    /\ callers[1].ret.val.style
         = _parse_html_tags(BeforeUnterminated(callers[1].text)).val.style
    /\ callers[1].ret.val.text
         = Strip(TagLoop(BeforeUnterminated(callers[1].text), EmptyDict).val.content
                 \o FromUnterminated(callers[1].text))

\* "<b >X<b ": the blank after the unterminated '<b' is gone from the text
C25_TrailingBlankLost ==
  /\ Scanned
  /\ callers[1].text = <<"<", "b", " ", ">", "X", "<", "b", " ">>
  /\ callers[1].ret = Ok([text |-> <<"X", "<", "b">>, style |-> "bold" :> TRUE])

\* the indices of a range sent to the service, without its sheetId
Indices(range) ==
  RangeInfo(range.startRowIndex, range.endRowIndex,
            range.startColumnIndex, range.endColumnIndex)

\* the range a request of a cell batch carries
RangeSent(request) ==
  IF "updateCells" \in DOMAIN request THEN Indices(request["updateCells"].range)
  ELSE Indices(request["mergeCells"].range)

\* range_str is "<C1><R1>:<C2><R2>", or is the single cell "<C1><R1>" and
\* (C2, R2) = (C1, R1)
Names(range_str, c1, r1, c2, r2) ==
  \/ range_str = TwoRef(c1, r1, c2, r2)
  \/ range_str = CellRef(c1, r1) /\ c2 = c1 /\ r2 = r1

\* every request of the cell batch that was sent carries the half-open range
\* of the cells range_str denotes
SendsDenoted(range_str) ==
  \A c1 \in 0..3, c2 \in 0..3, r1 \in 1..3, r2 \in 1..3 :
    Names(range_str, c1, r1, c2, r2) =>
      \A k \in CellBodies : \A q \in 1..Len(sent[k].requests) :
        RangeSent(sent[k].requests[q]) = RangeInfo(r1 - 1, r2, c1, c2 + 1)

\* C26: the range of every updateCells and mergeCells request sent is the
\* half-open range of the cells the range string denotes, startRowIndex =
\* R1 - 1, endRowIndex = R2, startColumnIndex = index(C1), endColumnIndex =
\* index(C2) + 1, for "<C1><R1>:<C2><R2>" and for the single cell "<C><R>",
\* given as range_name to update_cells or as the range of the descriptor of
\* batch_update_cells.
C26_SentRangeIsDenoted ==
  /\ Returned("update_cells") => SendsDenoted(call.range_name)
  /\ ( /\ Returned("batch_update_cells")
       /\ Len(call.updates) = 1
       /\ Processed(call.updates[1])
       /\ call.updates[1].range.isStr ) => SendsDenoted(call.updates[1].range.s)

\* the one case in which the sent range is the denoted one: a two-reference
\* string given to batch_update_cells
C26_BatchTwoRefsDenoted ==
  ( /\ Returned("batch_update_cells")
    /\ Len(call.updates) = 1
    /\ Processed(call.updates[1])
    /\ call.updates[1].range.isStr
    /\ Contains(call.updates[1].range.s, ":") ) => SendsDenoted(call.updates[1].range.s)

\* update_cells("A1:B1") sends rows 0..2 and columns 0..3
C26_UpdateCellsOneTooMany ==
  /\ Returned("update_cells")
  /\ call.range_name = <<"A", "1", ":", "B", "1">>
  /\ CellBodies # {}
  /\ \A k \in CellBodies :
       RangeSent(sent[k].requests[1]) = RangeInfo(0, 2, 0, 3)

\* batch_update_cells with the single cell "A1" sends rows 0..2, columns 0..2
C26_SingleCellOneTooMany ==
  /\ Returned("batch_update_cells")
  /\ Len(call.updates) = 1
  /\ Processed(call.updates[1])
  /\ call.updates[1].range = RangeStr(<<"A", "1">>)
  /\ CellBodies # {}
  /\ \A k \in CellBodies :
       RangeSent(sent[k].requests[1]) = RangeInfo(0, 2, 0, 2)

\* the cell emitted for value when nothing but the value and the format the
\* caller supplied goes into it
OwnCell(value, format_config) ==
  LET c == CellData(value, format_config, TextFormatOf(format_config))
  IN  ResolveCell(c.cell_data, c.tf)

\* the rows of the updateCells request of the i-th descriptor in the k-th call
RowsSent(k, i) == sent[k].requests[CellsAt(call.updates, i)]["updateCells"].rows

\* every cell sent for the i-th descriptor is the cell of its own value and
\* of the descriptor's format as the caller supplied it
CellsAreOwn(k, i) ==
  \A r \in 1..Len(call.updates[i].values) :
    \A j \in 1..Len(call.updates[i].values[r]) :
      RowsSent(k, i)[r].values[j]
        = OwnCell(call.updates[i].values[r][j], Get(call.updates[i], "format", EmptyDict))

\* C27: within one batch_update_cells call the format emitted for a cell
\* depends only on that cell's own value and on the descriptor's format as the
\* caller supplied it (a cell without markup gets exactly the caller's format,
\* whatever the cells before it carried), and the format objects of the
\* caller are the same after the call as before it.
C27_NoStyleLeak ==
  Returned("batch_update_cells") =>
    /\ formats = FormatsOf(call)
    /\ (\A i \in 1..Len(call.updates) : Processed(call.updates[i]))
         => \A k \in CellBodies : \A i \in 1..Len(call.updates) : CellsAreOwn(k, i)

\* [['<b >x', 'y']] with the format {'textFormat': {'italic': True}}: the
\* cell 'y' is sent bold, and the caller's textFormat holds bold afterwards
C27_BoldLeaks ==
  /\ Returned("batch_update_cells")
  /\ Len(call.updates) = 1
  /\ Processed(call.updates[1])
  /\ call.updates[1].values = BoldRow
  /\ Get(call.updates[1], "format", EmptyDict) = ItalicFormat
  /\ CellBodies # {}
  /\ \A k \in CellBodies :
       RowsSent(k, 1)[1].values[2]["userEnteredFormat"]
         = "textFormat" :> (("italic" :> TRUE) @@ ("bold" :> TRUE))
  /\ formats = <<"textFormat" :> (("italic" :> TRUE) @@ ("bold" :> TRUE))>>

\* without a textFormat in the caller's format no cell takes anything from
\* another cell
C27_NoLeakWithoutTextFormat ==
  ( /\ Returned("batch_update_cells")
    /\ \A i \in 1..Len(call.updates) :
         /\ Processed(call.updates[i])
         /\ "textFormat" \notin DOMAIN Get(call.updates[i], "format", EmptyDict) )
    => /\ formats = FormatsOf(call)
       /\ \A k \in CellBodies : \A i \in 1..Len(call.updates) : CellsAreOwn(k, i)

\* the call has added its sheet to the spreadsheet: it sent the addSheet
\* request and the title, missing before, is there
SheetAdded ==
  /\ \E k \in 1..Len(sent) : /\ sent[k].api = "batchUpdate"
                             /\ "addSheet" \in DOMAIN sent[k].requests[1]
  /\ call.sheet_name \in DOMAIN sheets

\* C28: a batch_update_cells call that returns success = False without having
\* sent its cell batch (no valid descriptor, a range or color parse error, a
\* failing descriptor) has changed nothing in the remote spreadsheet: it has
\* not added a sheet.
C28_FailureBeforeBatchChangesNothing ==
  ( /\ Returned("batch_update_cells")
    /\ ret.success = FALSE
    /\ CellBodies = {} ) => ~SheetAdded

\* a call for a missing sheet whose only descriptor has no values: the
\* sheet is created, then the call fails with nothing to send
C28_SheetLeftBehind ==
  /\ Returned("batch_update_cells")
  /\ call.updates = <<[range |-> RangeStr(<<"A", "1">>), merge |-> TRUE]>>
  /\ ret = Fail("No valid update requests found")
  /\ sent = <<GetCall, BatchUpdateCall(<<AddSheetRequest(call.sheet_name)>>)>>
  /\ SheetAdded

\* a parse error of a descriptor likewise comes after the sheet was created
C28_SheetLeftBehindByParseError ==
  /\ Returned("batch_update_cells")
  /\ ret.success = FALSE
  /\ ret.error \in {"ValueError", "IndexError"}
  /\ CellBodies = {}
  /\ SheetAdded

\* update_cells has come to its dimension check: the spreadsheet was read and
\* the sheet was found
ReachedDimensionCheck ==
  ~(sent = <<GetCall>> /\ ret \in {Fail("HttpError"), Fail("Sheet not found")})

\* update_cells has returned the failure of its dimension check
DimensionFailure ==
  /\ ret.success = FALSE
  /\ ret.error = "Data dimensions do not match range"

\* every row of values has n columns
EveryRowHas(values, n) == \A i \in 1..Len(values) : Len(values[i]) = n

\* the dimension check of a call with the range "<C1><R1>:<C2><R2>" passes
\* exactly the grids with index(C2) - index(C1) + 1 columns in every row
ChecksSpan(c1, r1, c2, r2) ==
  ( /\ call.range_name = TwoRef(c1, r1, c2, r2)
    /\ ReachedDimensionCheck )
    => (DimensionFailure <=> ~EveryRowHas(call.values, c2 - c1 + 1))

\* C29: for a two-reference range spanning k columns ("A1:D1" spans 4)
\* update_cells passes a grid with k columns in every row through its
\* dimension check and rejects a grid with another column count.
C29_SpanningGridAccepted ==
  Returned("update_cells") =>
    \A c1 \in 0..3, c2 \in 0..3, r1 \in 1..3, r2 \in 1..3 :
      c1 <= c2 => ChecksSpan(c1, r1, c2, r2)

\* what the check does: it passes exactly the grids with
\* index(C2) - index(C1) columns in every row
C29_ChecksOneColumnLess ==
  Returned("update_cells") =>
    \A c1 \in 0..3, c2 \in 0..3, r1 \in 1..3, r2 \in 1..3 :
      ( /\ call.range_name = TwoRef(c1, r1, c2, r2)
        /\ ReachedDimensionCheck )
        => (DimensionFailure <=> ~EveryRowHas(call.values, c2 - c1))

\* "A1:B1" with the two-column row ['x', 'y'] is rejected
C29_SpanningGridRejected ==
  /\ Returned("update_cells")
  /\ call.range_name = <<"A", "1", ":", "B", "1">>
  /\ call.values = PlainRow
  /\ DimensionFailure
  /\ ret.expected = 1 /\ ret.got = 2

\* "A1:B1" with the one-column row ['x'] passes and is sent
C29_NarrowerGridAccepted ==
  /\ Returned("update_cells")
  /\ call.range_name = <<"A", "1", ":", "B", "1">>
  /\ call.values = PlainCell
  /\ ret.success = TRUE
  /\ CellBodies # {}

\* C30: duplicate_sheet returns success = True only if the copy and then the
\* rename of the copy to new_name both succeeded: whenever the rename fails
\* (remote error or no replies) duplicate_sheet returns success = False, and
\* a copy that came back with a valid new sheet id (0 included) is never
\* taken for a failed copy.
C30_DuplicateNeedsBothSteps ==
  Returned("duplicate_sheet") =>
    /\ ret.success = TRUE => answer = "ok"
    /\ answer \in {"raise", "noreplies"} => ret.success = FALSE
    /\ ret # Fail("Failed to get new sheet ID")

\* the rename of the copy was refused (the title is taken) and
\* duplicate_sheet returns success = True; the copy keeps the title the
\* service gave it
C30_RenameFailureIgnored ==
  /\ Returned("duplicate_sheet")
  /\ call.new_name = "Sheet1"
  /\ answer = "raise"
  /\ ret.success = TRUE
  /\ "Copy of Sheet1" \in DOMAIN sheets

\* the copy got the id 0 and duplicate_sheet returns the failure of a copy
\* without id, with the copy made and not renamed
C30_ZeroIdTakenForFailure ==
  /\ Returned("duplicate_sheet")
  /\ ret = Fail("Failed to get new sheet ID")
  /\ sent = <<CopyToCall(call.sheet_id)>>
  /\ "Copy of Data" \in DOMAIN sheets
  /\ sheets["Copy of Data"] = 0

\* rename_sheet itself reports every failure of its batchUpdate
C30_RenameReportsFailure ==
  Returned("rename_sheet") => (ret.success = TRUE <=> answer = "ok")
====
